---- MODULE Spec2Model ----
(***************************************************************************)
(* A model of extensor-cache: the ExtensorCache dispatcher                 *)
(* (src/src/extensorCache.ts), the pattern matcher (checkForMatch,          *)
(* keyPatternIsValid), the KeyConfig / GlobalConfig policy objects and the  *)
(* InMemoryStoreAdapter with its passive and active expiration.             *)
(*                                                                         *)
(* Strings that the code inspects character by character (patterns, keys)  *)
(* are sequences of one-character strings.  Time is the wall clock in       *)
(* seconds; retry delays are milliseconds, as in the code.                  *)
(***************************************************************************)
EXTENDS Integers, Sequences, FiniteSets, TLC

VARIABLES
    store,            \* InMemoryStoreAdapter.#cache : key -> entry | NoEntry
    now,              \* the wall clock read by new Date(), in seconds
    globalConfig,     \* ExtensorCache.#globalConfig
    patternRegister,  \* ExtensorCache.#patternRegister, in registration order
    registerArgs,     \* history: the constructor arguments of each registered KeyConfig
    ops,              \* the asynchronous calls (put/get/update/evict) in flight
    ret               \* what the latest synchronous call returned or threw

vars == <<store, now, globalConfig, patternRegister, registerArgs, ops, ret>>

-----------------------------------------------------------------------------
(* Bounds of the model *)

MaxRoutes == 1     \* registrations explored
MaxOps == 2        \* asynchronous calls that may overlap
MaxTicks == 1      \* clock ticks explored
TickSeconds == 400 \* seconds the clock advances in one tick
MaxOverlap == 2    \* registrations explored where patterns overlap
MaxSample == 3     \* keys one sweep tick samples where the store outgrows the sample
MaxPatternLen == 6 \* characters of the patterns handed to validation

(* Program constants *)

DefaultTtl == 0                        \* GlobalConfig / KeyConfig constructor, store.put
DefaultWriteRetryCount == 1
DefaultWriteRetryInterval == 1000
DefaultWriteRetryIntervalCap == 3600000 \* 60 * 60 * 1000
SweepSampleCap == 20                   \* keys sampled by one active sweep

ReadStrategies == [cacheOnly |-> "CACHE_ONLY", readThrough |-> "READ_THROUGH",
                   readAround |-> "READ_AROUND"]
WriteStrategies == [cacheOnly |-> "CACHE_ONLY", writeThrough |-> "WRITE_THROUGH",
                    writeBack |-> "WRITE_BACK"]

Undefined == "undefined"  \* the JavaScript value undefined
NoEntry == [absent |-> TRUE]

-----------------------------------------------------------------------------
(* Pattern matching: checkForMatch and keyPatternIsValid *)

Letters == {"u", "x", "i", "k"}
Digits == {"1", "2"}

\* The least j > i with p[j] = "}", or 0: where the lazy {(.*?)} closes.
FindClose(p, i) ==
    LET js == {j \in (i + 1)..Len(p) : p[j] = "}"}
    IN  IF js = {} THEN 0 ELSE CHOOSE j \in js : \A j2 \in js : j <= j2

\* The successive matches of /{(.*?)}/g in the pattern, with the literal
\* characters between them: a sequence of [kind, text].
RECURSIVE Tokenise(_, _)
Tokenise(p, i) ==
    IF i > Len(p) THEN <<>>
    ELSE IF p[i] = "{" /\ FindClose(p, i) # 0
         THEN <<[kind |-> "param", text |-> SubSeq(p, i + 1, FindClose(p, i) - 1)]>>
              \o Tokenise(p, FindClose(p, i) + 1)
         ELSE <<[kind |-> "lit", text |-> <<p[i]>>]>> \o Tokenise(p, i + 1)

ParamNames(p) ==
    LET toks == Tokenise(p, 1)
    IN  SelectSeq(toks, LAMBDA t : t.kind = "param")

SeqRange(s) == {s[i] : i \in 1..Len(s)}

\* Mutant: the check for nested placeholders is left out.
keyPatternIsValidIgnoresNesting(pattern) ==
    LET parameterNames == ParamNames(pattern)
        uniqueNames == {t.text : t \in SeqRange(parameterNames)}
    IN  IF Len(parameterNames) = 0 THEN TRUE
        ELSE IF Cardinality(uniqueNames) # Len(parameterNames) THEN FALSE
        ELSE IF \E t \in SeqRange(parameterNames) : t.text = <<>> THEN FALSE
        ELSE TRUE

\* keyPatternIsValid(pattern)
keyPatternIsValid(pattern) ==
    LET parameterNames == ParamNames(pattern)
        uniqueNames == {t.text : t \in SeqRange(parameterNames)}
    IN  IF Len(parameterNames) = 0 THEN TRUE
        ELSE IF Cardinality(uniqueNames) # Len(parameterNames) THEN FALSE
        ELSE IF \E t \in SeqRange(parameterNames) : t.text = <<>> THEN FALSE
        ELSE IF \E t \in SeqRange(parameterNames) :
                    "{" \in SeqRange(t.text) \/ "}" \in SeqRange(t.text) THEN FALSE
        ELSE TRUE

\* A capture group name must be an identifier, and no name may repeat:
\* otherwise new RegExp(...) throws a SyntaxError.
IsGroupName(n) ==
    /\ n # <<>>
    /\ n[1] \in Letters \cup {"_", "$"}
    /\ \A i \in 1..Len(n) : n[i] \in Letters \cup Digits \cup {"_", "$"}

RegExpCompiles(pattern) ==
    LET names == ParamNames(pattern)
    IN  /\ \A t \in SeqRange(names) : IsGroupName(t.text)
        /\ Cardinality({t.text : t \in SeqRange(names)}) = Len(names)

\* A literal pattern character is a regular expression atom: "." matches
\* any character, every other character of the alphabet matches itself.
LitMatches(c, k) == IF c = "." THEN TRUE ELSE c = k

NoMatch == <<"nomatch">>

\* The backtracking match of the anchored expression from token ti and key
\* position ki: the captured values in group order (each wrapped in a
\* 1-tuple), or NoMatch.  Each (.*?) tries the shortest capture first.
RECURSIVE MatchFrom(_, _, _, _)
RECURSIVE TryLen(_, _, _, _, _)
MatchFrom(toks, ti, key, ki) ==
    IF ti > Len(toks)
    THEN IF ki = Len(key) + 1 THEN <<>> ELSE NoMatch
    ELSE IF toks[ti].kind = "lit"
         THEN IF ki <= Len(key) /\ LitMatches(toks[ti].text[1], key[ki])
              THEN MatchFrom(toks, ti + 1, key, ki + 1)
              ELSE NoMatch
         ELSE TryLen(toks, ti, key, ki, 0)

TryLen(toks, ti, key, ki, len) ==
    IF ki + len > Len(key) + 1 THEN NoMatch
    ELSE LET rest == MatchFrom(toks, ti + 1, key, ki + len)
         IN  IF rest # NoMatch
             THEN <<SubSeq(key, ki, ki + len - 1)>> \o rest
             ELSE TryLen(toks, ti, key, ki, len + 1)

\* checkForMatch(pattern, key): {match: false}, {match: true, params, key},
\* or the exception of new RegExp.
checkForMatch(pattern, key) ==
    IF ~RegExpCompiles(pattern) THEN [match |-> FALSE, threw |-> TRUE]
    ELSE LET names == ParamNames(pattern)
             m == MatchFrom(Tokenise(pattern, 1), 1, key, 1)
         IN  IF m = NoMatch THEN [match |-> FALSE, threw |-> FALSE]
             ELSE [match |-> TRUE, threw |-> FALSE, key |-> key,
                   params |-> {<<names[i].text, m[i]>> : i \in 1..Len(names)}]

-----------------------------------------------------------------------------
(* InMemoryStoreAdapter *)

Min(a, b) == IF a <= b THEN a ELSE b

RECURSIVE Pow2(_)
Pow2(n) == IF n <= 0 THEN 1 ELSE 2 * Pow2(n - 1)

StoreKeys(s) == {k \in DOMAIN s : s[k] # NoEntry}

\* put(key, value, ttl = 0) at clock reading t
StorePut(s, key, value, ttl, t) ==
    LET ttlArg == IF ttl = <<>> THEN DefaultTtl ELSE ttl[1]
    IN  [s EXCEPT ![key] = [value |-> value, ttl |-> ttlArg, created |-> t,
                            expires |-> t + ttlArg]]

\* Mutant: the entry is not deleted.
StoreEvictKeeps(s, key) == s

\* evict(key): delete this.#cache[key]
StoreEvict(s, key) == [s EXCEPT ![key] = NoEntry]

\* Mutant: clear drops only the entries that expire.
StoreClearKeepsImmortal(s) ==
    [k \in DOMAIN s |-> IF s[k] # NoEntry /\ s[k].ttl = 0 THEN s[k] ELSE NoEntry]

\* clear(): this.#cache = {}
StoreClear(s) == [k \in DOMAIN s |-> NoEntry]

\* Mutant: the values are counted, not the keys.
StoreSizeOfValues(s) == Cardinality({s[k].value : k \in StoreKeys(s)})

\* size(): Object.keys(this.#cache).length
StoreSize(s) == Cardinality(StoreKeys(s))

\* Mutant: ttl 0 is not exempt from expiry.
IsExpiredWhateverTtl(entry, t) == entry.expires < t

\* Mutant: an entry expires at its expiry timestamp, not after it.
IsExpiredAtExpiry(entry, t) == entry.ttl # 0 /\ entry.expires <= t

\* cache.ttl !== 0 && cache.expires < now.getTime()
IsExpired(entry, t) == entry.ttl # 0 /\ entry.expires < t

\* Mutant: the value is returned whether or not the entry has expired.
checkForFreshnessServesStale(s, key, t) ==
    IF s[key] = NoEntry THEN [store |-> s, value |-> Undefined]
    ELSE [store |-> s, value |-> s[key].value]

\* #checkForFreshness(key): the store afterwards and the value returned
checkForFreshness(s, key, t) ==
    IF s[key] = NoEntry THEN [store |-> s, value |-> Undefined]
    ELSE IF IsExpired(s[key], t)
         THEN [store |-> [s EXCEPT ![key] = NoEntry], value |-> Undefined]
         ELSE [store |-> s, value |-> s[key].value]

\* get(key)
StoreGet(s, key, t) ==
    IF key \notin StoreKeys(s) THEN [store |-> s, value |-> Undefined]
    ELSE checkForFreshness(s, key, t)

\* Mutant: a tick gives up when the store holds more keys than it samples.
SweepSelectionsNoneAboveCap(s, cap) ==
    IF Cardinality(StoreKeys(s)) <= cap THEN {StoreKeys(s)} ELSE {{}}

\* The sets of keys one tick of #activelyDeleteExpiredValues may select
\* when it samples cap keys: every key when there are at most cap,
\* otherwise what cap random draws with duplicates dropped can give.
SweepSelectionsWithin(s, cap) ==
    IF Cardinality(StoreKeys(s)) <= cap THEN {StoreKeys(s)}
    ELSE {sel \in SUBSET StoreKeys(s) :
            Cardinality(sel) >= 1 /\ Cardinality(sel) <= cap}

\* The selections of a tick with the cap of the source, 20
SweepSelections(s) == SweepSelectionsWithin(s, SweepSampleCap)

\* Mutant: the tick checks every key, whatever it selected.
activelyDeleteExpiredValuesChecksAll(s, selectedKeys, t) ==
    [k \in DOMAIN s |-> checkForFreshness(s, k, t).store[k]]

\* for (const key of selectedKeys) this.#checkForFreshness(key)
activelyDeleteExpiredValues(s, selectedKeys, t) ==
    [k \in DOMAIN s |->
        IF k \in selectedKeys THEN checkForFreshness(s, k, t).store[k] ELSE s[k]]

-----------------------------------------------------------------------------
(* GlobalConfig, KeyConfig and register's merge *)

\* An optional argument is <<>> when the caller left it out, <<v>> otherwise.
OrDefault(arg, default) == IF arg = <<>> THEN default ELSE arg[1]

\* new GlobalConfig(ttl, readStrategy, writeStrategy)
GlobalConfigNew(ttl, readStrategy, writeStrategy) ==
    [ttl |-> OrDefault(ttl, DefaultTtl),
     readStrategy |-> OrDefault(readStrategy, ReadStrategies.cacheOnly),
     writeStrategy |-> OrDefault(writeStrategy, WriteStrategies.cacheOnly),
     writeRetryCount |-> DefaultWriteRetryCount,
     writeRetryInterval |-> DefaultWriteRetryInterval,
     writeRetryBackoff |-> TRUE,
     writeRetryIntervalCap |-> DefaultWriteRetryIntervalCap]

\* { ...a, ...b }: the own properties of b over those of a
Spread(a, b) ==
    [f \in DOMAIN a \cup DOMAIN b |-> IF f \in DOMAIN b THEN b[f] ELSE a[f]]

\* new KeyConfig(pattern, ttl, readCallback, readStrategy, writeCallback,
\* writeStrategy): the constructor gives every field a value.
KeyConfigNew(pattern, ttl, readStrategy, writeStrategy) ==
    Spread(GlobalConfigNew(ttl, readStrategy, writeStrategy),
           [pattern |-> pattern,
            readCallback |-> "readCallback",
            readStrategy |-> OrDefault(readStrategy, ReadStrategies.cacheOnly),
            writeCallback |-> "writeCallback",
            writeStrategy |-> OrDefault(writeStrategy, WriteStrategies.cacheOnly),
            evictCallback |-> "evictCallback",
            updateCallback |-> Undefined])

\* The fields a caller assigns on the constructed object before registering
\* it (keyConfig.writeRetryCount = 2, keyConfig.updateCallback = f, ...).
Assigned(args) ==
    LET fields == {"writeRetryCount", "writeRetryInterval", "writeRetryBackoff",
                   "writeRetryIntervalCap", "updateCallback"}
        set == {f \in fields : args[f] # <<>>}
    IN  [f \in set |-> args[f][1]]

KeyConfigOf(args) ==
    Spread(KeyConfigNew(args.pattern, args.ttl, args.readStrategy, args.writeStrategy),
           Assigned(args))

\* Mutant: the global defaults override the route's own fields.
MergedConfigGlobalWins(global, config) == Spread(config, global)

\* register(config): the entry pushed on the register
MergedConfig(global, config) == Spread(global, config)

\* #findRoute(key): the index of the first route whose pattern matches, 0
\* when none does, -1 when checkForMatch throws before a match is found.
RECURSIVE FindFrom(_, _, _)
FindFrom(reg, key, i) ==
    IF i > Len(reg) THEN 0
    ELSE LET context == checkForMatch(reg[i].pattern, key)
         IN  IF context.threw THEN -1
             ELSE IF context.match THEN i
             ELSE FindFrom(reg, key, i + 1)

\* Mutant: the route registered last among the matching ones wins.
findRouteLatest(reg, key) ==
    LET ms == {i \in 1..Len(reg) : checkForMatch(reg[i].pattern, key).match}
    IN  IF ms = {} THEN 0 ELSE CHOOSE i \in ms : \A j \in ms : j <= i

findRoute(reg, key) == FindFrom(reg, key, 1)

\* Mutant: without a route the global default ttl is passed to the store.
RouteTtlOrGlobal(reg, r) == IF r <= 0 THEN <<globalConfig.ttl>> ELSE <<reg[r].ttl>>

\* route?.keyConfig.ttl: <<>> stands for undefined
RouteTtl(reg, r) == IF r <= 0 THEN <<>> ELSE <<reg[r].ttl>>

\* route?.keyConfig.writeStrategy and readStrategy
RouteWriteStrategy(reg, r) == IF r <= 0 THEN Undefined ELSE reg[r].writeStrategy
RouteReadStrategy(reg, r) == IF r <= 0 THEN Undefined ELSE reg[r].readStrategy

NoContext == [match |-> FALSE, threw |-> FALSE]

\* route.context
RouteContext(reg, r, key) ==
    IF r <= 0 THEN NoContext ELSE checkForMatch(reg[r].pattern, key)

\* Mutant: the exponent counts from the first try, not the first retry.
rejectDelayFromFirstTry(keyConfig, attempt) ==
    LET nextTimeout == keyConfig.writeRetryInterval *
                       (IF keyConfig.writeRetryBackoff THEN Pow2(attempt + 1) ELSE 1)
    IN  Min(keyConfig.writeRetryIntervalCap, nextTimeout)

\* Mutant: the backoff flag is ignored.
rejectDelayAlwaysBackoff(keyConfig, attempt) ==
    Min(keyConfig.writeRetryIntervalCap, keyConfig.writeRetryInterval * Pow2(attempt))

\* Mutant: the cap is not applied.
rejectDelayUncapped(keyConfig, attempt) ==
    keyConfig.writeRetryInterval *
        (IF keyConfig.writeRetryBackoff THEN Pow2(attempt) ELSE 1)

\* rejectDelay's cappedTimeout for loop index attempt
rejectDelay(keyConfig, attempt) ==
    LET nextTimeout == keyConfig.writeRetryInterval *
                       (IF keyConfig.writeRetryBackoff THEN Pow2(attempt) ELSE 1)
    IN  Min(keyConfig.writeRetryIntervalCap, nextTimeout)

\* Mutant: the initial attempt is not counted in.
tryCountWithoutInitial(keyConfig) == keyConfig.writeRetryCount

tryCount(keyConfig) == keyConfig.writeRetryCount + 1

-----------------------------------------------------------------------------
(* The inputs explored *)

Keys == {<<"u", "1">>, <<"x">>}

Values == {"v1", "v2"}

\* "u{i}" matches the key "u1" and not "x"; "{}" and "{i}{i}" are invalid.
RegPatterns ==
    {<<"u", "{", "i", "}">>, <<"{", "}">>, <<"{", "i", "}", "{", "i", "}">>}

GlobalConfigs ==
    {GlobalConfigNew(<<>>, <<>>, <<>>),
     GlobalConfigNew(<<300>>, <<ReadStrategies.readThrough>>,
                     <<WriteStrategies.writeThrough>>)}

KeyConfigArgs(patterns, ttls, reads, writes, counts, intervals, backoffs, caps, updates) ==
    [pattern : patterns, ttl : ttls, readStrategy : reads, writeStrategy : writes,
     writeRetryCount : counts, writeRetryInterval : intervals,
     writeRetryBackoff : backoffs, writeRetryIntervalCap : caps,
     updateCallback : updates]

\* Routes that differ in their write side; the read side is cache-only.
\* The update callback matters to the routes that call back, the retry
\* count to the write-back ones.
WriteArgs ==
    KeyConfigArgs(RegPatterns, {<<>>, <<600>>}, {<<>>}, {<<>>},
                  {<<>>}, {<<>>}, {<<>>}, {<<>>}, {<<>>})
    \cup
    KeyConfigArgs(RegPatterns, {<<>>, <<600>>}, {<<>>},
                  {<<WriteStrategies.writeThrough>>},
                  {<<>>}, {<<>>}, {<<>>}, {<<>>}, {<<>>, <<"updateCallback">>})
    \cup
    KeyConfigArgs(RegPatterns, {<<>>, <<600>>}, {<<>>},
                  {<<WriteStrategies.writeBack>>},
                  {<<0>>, <<>>}, {<<>>}, {<<>>}, {<<>>}, {<<>>, <<"updateCallback">>})

\* Write-back routes that differ in their retry policy.
RetryArgs ==
    KeyConfigArgs({<<"u", "{", "i", "}">>}, {<<>>}, {<<>>},
                  {<<WriteStrategies.writeBack>>},
                  {<<0>>, <<>>, <<2>>, <<4>>}, {<<>>, <<6000>>}, {<<>>, <<FALSE>>},
                  {<<>>, <<5000>>}, {<<>>})

\* The keys written through those routes: the one their pattern matches.
RetryKeys == {<<"u", "1">>}

\* Routes whose patterns overlap on the key "u1", "{k}" matching every
\* key, under two policies that differ in every respect.
RouteArgs ==
    KeyConfigArgs({<<"u", "{", "i", "}">>, <<"{", "k", "}">>}, {<<>>}, {<<>>}, {<<>>},
                  {<<>>}, {<<>>}, {<<>>}, {<<>>}, {<<>>})
    \cup
    KeyConfigArgs({<<"u", "{", "i", "}">>, <<"{", "k", "}">>}, {<<600>>},
                  {<<ReadStrategies.readThrough>>}, {<<WriteStrategies.writeThrough>>},
                  {<<>>}, {<<>>}, {<<>>}, {<<>>}, {<<"updateCallback">>})

\* Routes that differ in their ttl, the one of 600 also in its read side;
\* "{k}" matches every key.
TtlArgs ==
    KeyConfigArgs({<<"{", "k", "}">>}, {<<>>, <<300>>, <<TickSeconds>>}, {<<>>},
                  {<<>>}, {<<>>}, {<<>>}, {<<>>}, {<<>>}, {<<>>})
    \cup
    KeyConfigArgs({<<"{", "k", "}">>}, {<<600>>},
                  {<<ReadStrategies.readThrough>>, <<ReadStrategies.readAround>>},
                  {<<>>}, {<<>>}, {<<>>}, {<<>>}, {<<>>}, {<<>>})

\* Routes without strategies whose patterns pass keyPatternIsValid: one
\* whose placeholder name is an identifier, one whose placeholder name
\* starts with a digit, one without placeholder, one whose literal text is
\* a "."
MatchArgs ==
    KeyConfigArgs({<<"u", "{", "i", "}">>, <<"u", "{", "1", "}">>, <<"x">>,
                   <<".", "{", "i", "}">>},
                  {<<>>}, {<<>>}, {<<>>}, {<<>>}, {<<>>}, {<<>>}, {<<>>}, {<<>>})

\* The characters of the patterns handed to validation
PatternChars == {"{", "}", "i", "u"}

\* Every string of at most MaxPatternLen of these characters
AllPatterns == UNION {[1..n -> PatternChars] : n \in 0..MaxPatternLen}

\* Routes without strategies over every such pattern
ValidateArgs ==
    KeyConfigArgs(AllPatterns, {<<>>}, {<<>>}, {<<>>}, {<<>>}, {<<>>}, {<<>>}, {<<>>},
                  {<<>>})

\* Write-back routes for the keys "u<i>" that retry once or twice
BackArgs ==
    KeyConfigArgs({<<"u", "{", "i", "}">>}, {<<>>}, {<<>>},
                  {<<WriteStrategies.writeBack>>}, {<<>>, <<2>>}, {<<>>}, {<<>>},
                  {<<>>}, {<<>>})

\* Write-through routes for the keys "u<i>", with and without an update
\* callback
RaceArgs ==
    KeyConfigArgs({<<"u", "{", "i", "}">>}, {<<>>}, {<<>>},
                  {<<WriteStrategies.writeThrough>>}, {<<>>}, {<<>>}, {<<>>}, {<<>>},
                  {<<>>, <<"updateCallback">>})

\* Routes that differ in their read side; the write side is cache-only.
ReadArgs ==
    KeyConfigArgs({<<"u", "{", "i", "}">>}, {<<>>, <<300>>},
                  {<<>>, <<ReadStrategies.readThrough>>, <<ReadStrategies.readAround>>},
                  {<<>>}, {<<>>}, {<<>>}, {<<>>}, {<<>>}, {<<>>})

\* What a read callback may resolve with
ReadResults == Values \cup {Undefined}

-----------------------------------------------------------------------------
(* State *)

IdleOp ==
    [kind |-> "none", key |-> <<>>, value |-> Undefined, pc |-> "idle", route |-> 0,
     callback |-> "none", calls |-> 0, cbCtx |-> NoContext, outcome |-> "none",
     attempt |-> 0, timer |-> 0, status |-> "none", result |-> Undefined,
     fresh |-> Undefined]

OpIds == 1..MaxOps

NoRet == [call |-> "none"]

Init ==
    /\ store = [k \in Keys |-> NoEntry]
    /\ now = 0
    /\ globalConfig \in GlobalConfigs
    /\ patternRegister = <<>>
    /\ registerArgs = <<>>
    /\ ops = [o \in OpIds |-> IdleOp]
    /\ ret = NoRet

\* The caller of a settled call sees the outcome (its await resumes), and
\* the caller of a synchronous call its return value, before anything else
\* runs.
NoneDone ==
    /\ \A o \in OpIds : ops[o].pc # "done"
    /\ ret = NoRet

\* A call takes the first free slot.
FreeSlot(o) ==
    /\ NoneDone
    /\ ops[o].pc = "idle"
    /\ \A j \in 1..(o - 1) : ops[j].pc # "idle"

\* A promise reaction is queued: timers and intervals run only after it.
MicrotaskPending == \E o \in OpIds : ops[o].pc = "wb_try"

Settled(op, status, result) ==
    [op EXCEPT !.pc = "done", !.status = status, !.result = result]

Invoked(op, pc, ctx) ==
    [op EXCEPT !.pc = pc, !.calls = @ + 1, !.cbCtx = ctx, !.outcome = "none"]

-----------------------------------------------------------------------------
(* register, clear, containsKey, size *)

\* Mutant: the pattern is validated after the config has been pushed.
registerPushesFirst(args) ==
    /\ NoneDone
    /\ Len(patternRegister) < MaxRoutes
    /\ patternRegister' =
          Append(patternRegister, MergedConfig(globalConfig, KeyConfigOf(args)))
    /\ registerArgs' = Append(registerArgs, args)
    /\ ret' = [call |-> "register", pattern |-> args.pattern,
               threw |-> IF keyPatternIsValid(KeyConfigOf(args).pattern)
                         THEN "nothing" ELSE "Invalid key pattern!"]
    /\ UNCHANGED <<store, now, globalConfig, ops>>

\* register(config): an invalid pattern throws before anything is pushed.
\* The register grows up to max entries.
registerWithin(args, max) ==
    /\ NoneDone
    /\ IF ~keyPatternIsValid(KeyConfigOf(args).pattern)
       THEN /\ ret' = [call |-> "register", pattern |-> args.pattern,
                       threw |-> "Invalid key pattern!"]
            /\ UNCHANGED <<patternRegister, registerArgs>>
       ELSE /\ Len(patternRegister) < max
            /\ patternRegister' =
                 Append(patternRegister, MergedConfig(globalConfig, KeyConfigOf(args)))
            /\ registerArgs' = Append(registerArgs, args)
            /\ ret' = [call |-> "register", pattern |-> args.pattern,
                       threw |-> "nothing"]
    /\ UNCHANGED <<store, now, globalConfig, ops>>

register(args) == registerWithin(args, MaxRoutes)

\* Mutant: clear also cancels the write-back chains that wait for a retry.
clearCancelsRetries ==
    /\ NoneDone
    /\ store' = StoreClear(store)
    /\ ret' = [call |-> "clear"]
    /\ ops' = [o \in OpIds |-> IF ops[o].pc = "wb_wait" THEN IdleOp ELSE ops[o]]
    /\ UNCHANGED <<now, globalConfig, patternRegister, registerArgs>>

\* clear(): this.#store.clear()
clear ==
    /\ NoneDone
    /\ store' = StoreClear(store)
    /\ ret' = [call |-> "clear"]
    /\ UNCHANGED <<now, globalConfig, patternRegister, registerArgs, ops>>

\* Mutant: the key is looked up without the freshness check.
containsKeyWithoutCheck(key) ==
    /\ NoneDone
    /\ ret' = [call |-> "containsKey", key |-> key,
               value |-> (store[key] # NoEntry /\ store[key].value # Undefined)]
    /\ UNCHANGED <<store, now, globalConfig, patternRegister, registerArgs, ops>>

containsKey(key) ==
    /\ NoneDone
    /\ store' = StoreGet(store, key, now).store
    /\ ret' = [call |-> "containsKey", key |-> key,
               value |-> (StoreGet(store, key, now).value # Undefined)]
    /\ UNCHANGED <<now, globalConfig, patternRegister, registerArgs, ops>>

size ==
    /\ NoneDone
    /\ ret' = [call |-> "size", value |-> StoreSize(store)]
    /\ UNCHANGED <<store, now, globalConfig, patternRegister, registerArgs, ops>>

-----------------------------------------------------------------------------
(* put, update, evict *)

\* Mutant: overlapping write-through calls on a key are serialised, the
\* first to complete wins and the others leave the store alone.
MutationUnlessOverlapped(kind, s, key, value, r) ==
    IF Cardinality({o \in OpIds : ops[o].pc = "wt_cb" /\ ops[o].key = key}) > 1
    THEN s
    ELSE IF kind = "evict" THEN StoreEvict(s, key)
    ELSE StorePut(s, key, value, RouteTtl(patternRegister, r), now)

\* The store mutation of a write: put and update store the value with the
\* route's ttl, evict deletes the key.
Mutation(kind, s, key, value, r) ==
    IF kind = "evict" THEN StoreEvict(s, key)
    ELSE StorePut(s, key, value, RouteTtl(patternRegister, r), now)

\* Mutant: the write-through branch writes the store before the callback
\* has completed.
WriteThroughStartEager(o, op, r, callback) ==
    /\ ops' = [ops EXCEPT ![o] =
                 Invoked([op EXCEPT !.callback = callback], "wt_cb",
                         RouteContext(patternRegister, r, op.key))]
    /\ store' = Mutation(op.kind, store, op.key, op.value, r)

\* The write-through branch: the callback is called at once and the store
\* waits for its .then handler.
WriteThroughStart(o, op, r, callback) ==
    /\ ops' = [ops EXCEPT ![o] =
                 Invoked([op EXCEPT !.callback = callback], "wt_cb",
                         RouteContext(patternRegister, r, op.key))]
    /\ UNCHANGED store

\* Mutant: a write-back route leaves the store mutation to the retry chain.
DirectStartDeferred(o, op, r, callback) ==
    IF RouteWriteStrategy(patternRegister, r) = WriteStrategies.writeBack
    THEN /\ UNCHANGED store
         /\ ops' = [ops EXCEPT ![o] = [op EXCEPT !.callback = callback, !.pc = "wb_try"]]
    ELSE /\ store' = Mutation(op.kind, store, op.key, op.value, r)
         /\ ops' = [ops EXCEPT ![o] = Settled(op, "resolved", Undefined)]

\* The other branches: the store is mutated at once; a write-back route
\* then starts the retry chain, any other call returns.
DirectStart(o, op, r, callback) ==
    /\ store' = Mutation(op.kind, store, op.key, op.value, r)
    /\ IF RouteWriteStrategy(patternRegister, r) = WriteStrategies.writeBack
       THEN ops' = [ops EXCEPT ![o] = [op EXCEPT !.callback = callback, !.pc = "wb_try"]]
       ELSE ops' = [ops EXCEPT ![o] = Settled(op, "resolved", Undefined)]

\* Mutant: update falls back to cache-only semantics, as put does.
NoConfigurationNever(kind, r) == FALSE

\* update's guard: if (!route) throw new Error("No configuration found for key!")
NoConfiguration(kind, r) == kind = "update" /\ r = 0

\* The synchronous part of put / update / evict, up to the first await.
WriteStart(o, kind, key, value, callback) ==
    LET r == findRoute(patternRegister, key)
        op == [IdleOp EXCEPT !.kind = kind, !.key = key, !.value = value,
                             !.route = r, !.status = "pending"]
    IN  /\ FreeSlot(o)
        /\ ret' = NoRet
        /\ UNCHANGED <<now, globalConfig, patternRegister, registerArgs>>
        /\ IF r = -1
           THEN /\ ops' = [ops EXCEPT ![o] = Settled(op, "rejected", "SyntaxError")]
                /\ UNCHANGED store
           ELSE IF NoConfiguration(kind, r)
           THEN /\ ops' = [ops EXCEPT ![o] =
                             Settled(op, "rejected", "No configuration found for key!")]
                /\ UNCHANGED store
           ELSE IF RouteWriteStrategy(patternRegister, r) = WriteStrategies.writeThrough
           THEN WriteThroughStart(o, op, r, callback)
           ELSE DirectStart(o, op, r, callback)

put(o, key, value) == WriteStart(o, "put", key, value, "writeCallback")

\* Mutant: update always uses the write callback.
UpdateCallbackOfWriteOnly(reg, r) == "writeCallback"

\* route.keyConfig.updateCallback || route.keyConfig.writeCallback
UpdateCallbackOf(reg, r) ==
    IF r > 0 /\ reg[r].updateCallback # Undefined THEN "updateCallback"
    ELSE "writeCallback"

update(o, key, value) ==
    WriteStart(o, "update", key, value,
               UpdateCallbackOf(patternRegister, findRoute(patternRegister, key)))

evict(o, key) == WriteStart(o, "evict", key, Undefined, "evictCallback")

\* Mutant: the store is mutated whether or not the callback succeeded.
WriteThroughSettlesStoresAnyway(o, ok) ==
    /\ NoneDone
    /\ ops[o].pc = "wt_cb"
    /\ ret' = NoRet
    /\ UNCHANGED <<now, globalConfig, patternRegister, registerArgs>>
    /\ store' = Mutation(ops[o].kind, store, ops[o].key, ops[o].value, ops[o].route)
    /\ IF ok
       THEN ops' = [ops EXCEPT ![o] =
                      Settled([@ EXCEPT !.outcome = "ok"], "resolved", Undefined)]
       ELSE ops' = [ops EXCEPT ![o] =
                      Settled([@ EXCEPT !.outcome = "failed"], "rejected",
                              "callback failure")]

\* The write-through callback settles: the .then handler mutates the store
\* on success; a failure rejects the call.
WriteThroughSettles(o, ok) ==
    /\ NoneDone
    /\ ops[o].pc = "wt_cb"
    /\ ret' = NoRet
    /\ UNCHANGED <<now, globalConfig, patternRegister, registerArgs>>
    /\ IF ok
       THEN /\ store' = Mutation(ops[o].kind, store, ops[o].key, ops[o].value,
                                 ops[o].route)
            /\ ops' = [ops EXCEPT ![o] =
                         Settled([@ EXCEPT !.outcome = "ok"], "resolved", Undefined)]
       ELSE /\ UNCHANGED store
            /\ ops' = [ops EXCEPT ![o] =
                         Settled([@ EXCEPT !.outcome = "failed"], "rejected",
                                 "callback failure")]

-----------------------------------------------------------------------------
(* #writeBack: the retry chain *)

KeyConfigOfOp(op) == patternRegister[op.route]

\* Mutant: giving up rethrows the reason.
rejectQuitRethrows(op) == Settled(op, "rejected", "callback failure")

\* rejectQuit logs and returns: the chain, and with it the call, resolves.
rejectQuit(op) == Settled(op, "resolved", Undefined)

\* The first .catch of the chain runs the callback.  With no iteration of
\* the loop the call returns Promise.reject() itself.
WriteBackTry(o) ==
    /\ NoneDone
    /\ ops[o].pc = "wb_try"
    /\ ret' = NoRet
    /\ UNCHANGED <<store, now, globalConfig, patternRegister, registerArgs>>
    /\ IF tryCount(KeyConfigOfOp(ops[o])) <= 0
       THEN ops' = [ops EXCEPT ![o] = Settled(@, "rejected", Undefined)]
       ELSE ops' = [ops EXCEPT ![o] =
                      Invoked(@, "wb_cb",
                              RouteContext(patternRegister, ops[o].route, ops[o].key))]

\* Mutant: the retries are detached from the returned promise, which
\* resolves as soon as the first attempt has failed.
WriteBackSettlesDetached(o, ok) ==
    /\ NoneDone
    /\ ops[o].pc = "wb_cb"
    /\ ret' = NoRet
    /\ UNCHANGED <<store, now, globalConfig, patternRegister, registerArgs>>
    /\ IF ok
       THEN ops' = [ops EXCEPT ![o] =
                      Settled([@ EXCEPT !.outcome = "ok"], "resolved", Undefined)]
       ELSE IF ops[o].attempt < tryCount(KeyConfigOfOp(ops[o])) - 1
            THEN ops' = [ops EXCEPT ![o] =
                           [@ EXCEPT !.outcome = "failed", !.pc = "wb_wait",
                                     !.status = "resolved",
                                     !.timer = rejectDelay(KeyConfigOfOp(ops[o]),
                                                           ops[o].attempt)]]
            ELSE ops' = [ops EXCEPT ![o] = rejectQuit([@ EXCEPT !.outcome = "failed"])]

\* The callback of attempt i settles.  A success falls through the
\* remaining handlers; a failure starts the delay, or gives up on the last
\* attempt.
WriteBackSettles(o, ok) ==
    /\ NoneDone
    /\ ops[o].pc = "wb_cb"
    /\ ret' = NoRet
    /\ UNCHANGED <<store, now, globalConfig, patternRegister, registerArgs>>
    /\ IF ok
       THEN ops' = [ops EXCEPT ![o] =
                      Settled([@ EXCEPT !.outcome = "ok"], "resolved", Undefined)]
       ELSE IF ops[o].attempt < tryCount(KeyConfigOfOp(ops[o])) - 1
            THEN ops' = [ops EXCEPT ![o] =
                           [@ EXCEPT !.outcome = "failed", !.pc = "wb_wait",
                                     !.timer = rejectDelay(KeyConfigOfOp(ops[o]),
                                                           ops[o].attempt)]]
            ELSE ops' = [ops EXCEPT ![o] = rejectQuit([@ EXCEPT !.outcome = "failed"])]

\* Mutant: a retry writes the value of its call to the store again.
WriteBackTimerRewrites(o) ==
    /\ NoneDone
    /\ ops[o].pc = "wb_wait"
    /\ ~MicrotaskPending
    /\ ret' = NoRet
    /\ UNCHANGED <<now, globalConfig, patternRegister, registerArgs>>
    /\ store' = Mutation(ops[o].kind, store, ops[o].key, ops[o].value, ops[o].route)
    /\ ops' = [ops EXCEPT ![o] =
                 Invoked([@ EXCEPT !.attempt = @ + 1, !.timer = 0], "wb_cb",
                         RouteContext(patternRegister, ops[o].route, ops[o].key))]

\* Mutant: the next attempt does not wait for the previous one to fail.
WriteBackTimerEager(o) ==
    /\ NoneDone
    /\ ops[o].pc \in {"wb_wait", "wb_cb"}
    /\ ~MicrotaskPending
    /\ ret' = NoRet
    /\ UNCHANGED <<store, now, globalConfig, patternRegister, registerArgs>>
    /\ ops[o].attempt < tryCount(KeyConfigOfOp(ops[o])) - 1
    /\ ops' = [ops EXCEPT ![o] =
                 Invoked([@ EXCEPT !.attempt = @ + 1, !.timer = 0], "wb_cb",
                         RouteContext(patternRegister, ops[o].route, ops[o].key))]

\* The timer of rejectDelay fires: the next .catch runs the callback again.
WriteBackTimer(o) ==
    /\ NoneDone
    /\ ops[o].pc = "wb_wait"
    /\ ~MicrotaskPending
    /\ ret' = NoRet
    /\ UNCHANGED <<store, now, globalConfig, patternRegister, registerArgs>>
    /\ ops' = [ops EXCEPT ![o] =
                 Invoked([@ EXCEPT !.attempt = @ + 1, !.timer = 0], "wb_cb",
                         RouteContext(patternRegister, ops[o].route, ops[o].key))]

-----------------------------------------------------------------------------
(* get *)

\* Mutant: a read-through get asks the origin whatever the cache holds.
readThroughLookupSkipsCache(op, cachedValue, context) ==
    Invoked([op EXCEPT !.callback = "readCallback"], "rt_cb", context)

\* The read-through branch up to its await: a cached value is returned, a
\* miss calls the read callback.
readThroughLookup(op, cachedValue, context) ==
    IF cachedValue # Undefined THEN Settled(op, "resolved", cachedValue)
    ELSE Invoked([op EXCEPT !.callback = "readCallback"], "rt_cb", context)

\* Mutant: a cache-only miss resolves with undefined.
cacheOnlyLookupResolves(op, cachedValue) == Settled(op, "resolved", cachedValue)

\* The branch without a read strategy
cacheOnlyLookup(op, cachedValue) ==
    IF cachedValue = Undefined THEN Settled(op, "rejected", "Key not found")
    ELSE Settled(op, "resolved", cachedValue)

\* The synchronous part of get, up to the first await.
get(o, key) ==
    LET r == findRoute(patternRegister, key)
        op == [IdleOp EXCEPT !.kind = "get", !.key = key, !.route = r,
                             !.status = "pending"]
        cached == StoreGet(store, key, now)
        strategy == RouteReadStrategy(patternRegister, r)
    IN  /\ FreeSlot(o)
        /\ ret' = NoRet
        /\ UNCHANGED <<now, globalConfig, patternRegister, registerArgs>>
        /\ IF r = -1
           THEN /\ ops' = [ops EXCEPT ![o] = Settled(op, "rejected", "SyntaxError")]
                /\ UNCHANGED store
           ELSE IF strategy = ReadStrategies.readThrough
           THEN /\ store' = cached.store
                /\ ops' = [ops EXCEPT ![o] =
                             readThroughLookup(op, cached.value,
                                               RouteContext(patternRegister, r, key))]
           ELSE IF strategy = ReadStrategies.readAround
           THEN /\ UNCHANGED store
                /\ ops' = [ops EXCEPT ![o] =
                             Invoked([op EXCEPT !.callback = "readCallback"], "ra_cb",
                                     RouteContext(patternRegister, r, key))]
           ELSE /\ store' = cached.store
                /\ ops' = [ops EXCEPT ![o] = cacheOnlyLookup(op, cached.value)]

\* Mutant: a failure of the read callback is cached under the key.
ReadThroughSettlesCachesFailure(o, ok, freshValue) ==
    /\ NoneDone
    /\ ops[o].pc = "rt_cb"
    /\ ret' = NoRet
    /\ UNCHANGED <<now, globalConfig, patternRegister, registerArgs>>
    /\ IF ok
       THEN /\ store' = StorePut(store, ops[o].key, freshValue,
                                 <<KeyConfigOfOp(ops[o]).ttl>>, now)
            /\ ops' = [ops EXCEPT ![o] =
                         Settled([@ EXCEPT !.outcome = "ok", !.fresh = freshValue],
                                 "resolved", freshValue)]
       ELSE /\ store' = StorePut(store, ops[o].key, "callback failure",
                                 <<KeyConfigOfOp(ops[o]).ttl>>, now)
            /\ ops' = [ops EXCEPT ![o] =
                         Settled([@ EXCEPT !.outcome = "failed"], "rejected",
                                 "callback failure")]

\* Mutant: the fresh value is not stored over a value that was written
\* while the callback was in flight.
ReadThroughSettlesUnlessWritten(o, ok, freshValue) ==
    /\ NoneDone
    /\ ops[o].pc = "rt_cb"
    /\ ret' = NoRet
    /\ UNCHANGED <<now, globalConfig, patternRegister, registerArgs>>
    /\ IF ok
       THEN /\ store' = IF StoreGet(store, ops[o].key, now).value # Undefined
                        THEN store
                        ELSE StorePut(store, ops[o].key, freshValue,
                                      <<KeyConfigOfOp(ops[o]).ttl>>, now)
            /\ ops' = [ops EXCEPT ![o] =
                         Settled([@ EXCEPT !.outcome = "ok", !.fresh = freshValue],
                                 "resolved", freshValue)]
       ELSE /\ UNCHANGED store
            /\ ops' = [ops EXCEPT ![o] =
                         Settled([@ EXCEPT !.outcome = "failed"], "rejected",
                                 "callback failure")]

\* Mutant: the fresh value is returned without being cached.
ReadThroughSettlesWithoutStoring(o, ok, freshValue) ==
    /\ NoneDone
    /\ ops[o].pc = "rt_cb"
    /\ ret' = NoRet
    /\ UNCHANGED <<store, now, globalConfig, patternRegister, registerArgs>>
    /\ IF ok
       THEN ops' = [ops EXCEPT ![o] =
                      Settled([@ EXCEPT !.outcome = "ok", !.fresh = freshValue],
                              "resolved", freshValue)]
       ELSE ops' = [ops EXCEPT ![o] =
                      Settled([@ EXCEPT !.outcome = "failed"], "rejected",
                              "callback failure")]

\* The read callback of a read-through miss settles: the fresh value is
\* stored with the route's ttl and returned; a failure rejects the get.
ReadThroughSettles(o, ok, freshValue) ==
    /\ NoneDone
    /\ ops[o].pc = "rt_cb"
    /\ ret' = NoRet
    /\ UNCHANGED <<now, globalConfig, patternRegister, registerArgs>>
    /\ IF ok
       THEN /\ store' = StorePut(store, ops[o].key, freshValue,
                                 <<KeyConfigOfOp(ops[o]).ttl>>, now)
            /\ ops' = [ops EXCEPT ![o] =
                         Settled([@ EXCEPT !.outcome = "ok", !.fresh = freshValue],
                                 "resolved", freshValue)]
       ELSE /\ UNCHANGED store
            /\ ops' = [ops EXCEPT ![o] =
                         Settled([@ EXCEPT !.outcome = "failed"], "rejected",
                                 "callback failure")]

\* Mutant: a fresh value does not replace a value that is still cached.
ReadAroundSettlesPrefersCache(o, ok, freshValue) ==
    LET cached == StoreGet(store, ops[o].key, now)
    IN  /\ NoneDone
        /\ ops[o].pc = "ra_cb"
        /\ ret' = NoRet
        /\ UNCHANGED <<now, globalConfig, patternRegister, registerArgs>>
        /\ IF ok /\ cached.value = Undefined
           THEN /\ store' = StorePut(store, ops[o].key, freshValue,
                                     <<KeyConfigOfOp(ops[o]).ttl>>, now)
                /\ ops' = [ops EXCEPT ![o] =
                             Settled([@ EXCEPT !.outcome = "ok", !.fresh = freshValue],
                                     "resolved", freshValue)]
           ELSE IF ok
           THEN /\ store' = cached.store
                /\ ops' = [ops EXCEPT ![o] =
                             Settled([@ EXCEPT !.outcome = "ok", !.fresh = freshValue],
                                     "resolved", cached.value)]
           ELSE /\ store' = cached.store
                /\ IF cached.value = Undefined
                   THEN ops' = [ops EXCEPT ![o] =
                                  Settled([@ EXCEPT !.outcome = "failed"], "rejected",
                                          "The key was not found in the cache.")]
                   ELSE ops' = [ops EXCEPT ![o] =
                                  Settled([@ EXCEPT !.outcome = "failed"], "resolved",
                                          cached.value)]

\* Mutant: a failure of the read callback is surfaced even when the key
\* is cached.
ReadAroundSettlesSurfacesFailure(o, ok, freshValue) ==
    /\ NoneDone
    /\ ops[o].pc = "ra_cb"
    /\ ret' = NoRet
    /\ UNCHANGED <<now, globalConfig, patternRegister, registerArgs>>
    /\ IF ok
       THEN /\ store' = StorePut(store, ops[o].key, freshValue,
                                 <<KeyConfigOfOp(ops[o]).ttl>>, now)
            /\ ops' = [ops EXCEPT ![o] =
                         Settled([@ EXCEPT !.outcome = "ok", !.fresh = freshValue],
                                 "resolved", freshValue)]
       ELSE /\ UNCHANGED store
            /\ ops' = [ops EXCEPT ![o] =
                         Settled([@ EXCEPT !.outcome = "failed"], "rejected",
                                 "callback failure")]

\* The read callback of a read-around get settles: a fresh value is stored
\* and returned; on a failure the cache is consulted, and the get rejects
\* only when the key is not cached.
ReadAroundSettles(o, ok, freshValue) ==
    LET cached == StoreGet(store, ops[o].key, now)
    IN  /\ NoneDone
        /\ ops[o].pc = "ra_cb"
        /\ ret' = NoRet
        /\ UNCHANGED <<now, globalConfig, patternRegister, registerArgs>>
        /\ IF ok
           THEN /\ store' = StorePut(store, ops[o].key, freshValue,
                                     <<KeyConfigOfOp(ops[o]).ttl>>, now)
                /\ ops' = [ops EXCEPT ![o] =
                             Settled([@ EXCEPT !.outcome = "ok", !.fresh = freshValue],
                                     "resolved", freshValue)]
           ELSE /\ store' = cached.store
                /\ IF cached.value = Undefined
                   THEN ops' = [ops EXCEPT ![o] =
                                  Settled([@ EXCEPT !.outcome = "failed"], "rejected",
                                          "The key was not found in the cache.")]
                   ELSE ops' = [ops EXCEPT ![o] =
                                  Settled([@ EXCEPT !.outcome = "failed"], "resolved",
                                          cached.value)]

-----------------------------------------------------------------------------
(* The environment: the clock, the sweep timer, the caller *)

Tick ==
    /\ NoneDone
    /\ now < MaxTicks * TickSeconds
    /\ now' = now + TickSeconds
    /\ ret' = NoRet
    /\ UNCHANGED <<store, globalConfig, patternRegister, registerArgs, ops>>

\* One tick of the setInterval of the store's constructor, sampling cap
\* keys.
SweepWithin(cap) ==
    /\ NoneDone
    /\ ~MicrotaskPending
    /\ \E selectedKeys \in SweepSelectionsWithin(store, cap) :
          store' = activelyDeleteExpiredValues(store, selectedKeys, now)
    /\ ret' = NoRet
    /\ UNCHANGED <<now, globalConfig, patternRegister, registerArgs, ops>>

\* One tick of the sweep as the source runs it
Sweep == SweepWithin(SweepSampleCap)

\* The caller has seen the outcome of a settled call.
Release(o) ==
    /\ ops[o].pc = "done"
    /\ ops' = [ops EXCEPT ![o] = IdleOp]
    /\ ret' = NoRet
    /\ UNCHANGED <<store, now, globalConfig, patternRegister, registerArgs>>

\* The caller has seen what a synchronous call returned or threw.
Return ==
    /\ ret # NoRet
    /\ ret' = NoRet
    /\ UNCHANGED <<store, now, globalConfig, patternRegister, registerArgs, ops>>

-----------------------------------------------------------------------------
(* The dispatcher with routes that differ in their write side.  The clock
   stands still: no entry expires. *)

Next ==
    \/ \E args \in WriteArgs : register(args)
    \/ clear
    \/ \E key \in Keys : containsKey(key)
    \/ size
    \/ \E o \in OpIds, key \in Keys, value \in Values : put(o, key, value)
    \/ \E o \in OpIds, key \in Keys, value \in Values : update(o, key, value)
    \/ \E o \in OpIds, key \in Keys : evict(o, key)
    \/ \E o \in OpIds, key \in Keys : get(o, key)
    \/ \E o \in OpIds, ok \in BOOLEAN : WriteThroughSettles(o, ok)
    \/ \E o \in OpIds : WriteBackTry(o)
    \/ \E o \in OpIds, ok \in BOOLEAN : WriteBackSettles(o, ok)
    \/ \E o \in OpIds : WriteBackTimer(o)
    \/ \E o \in OpIds : Release(o)
    \/ Return

Spec == Init /\ [][Next]_vars

(* The retry chain of one write-back call at a time, over the retry
   policies. *)

NextRetry ==
    \/ \E args \in RetryArgs : register(args)
    \/ \E key \in RetryKeys, value \in Values : put(1, key, value)
    \/ \E key \in RetryKeys, value \in Values : update(1, key, value)
    \/ \E key \in RetryKeys : evict(1, key)
    \/ WriteBackTry(1)
    \/ \E ok \in BOOLEAN : WriteBackSettles(1, ok)
    \/ WriteBackTimer(1)
    \/ Release(1)
    \/ Return

SpecRetry == Init /\ [][NextRetry]_vars

(* Route resolution over registers of overlapping patterns, one call at a
   time. *)

NextRoute ==
    \/ \E args \in RouteArgs : registerWithin(args, MaxOverlap)
    \/ \E key \in Keys, value \in Values : put(1, key, value)
    \/ \E key \in Keys, value \in Values : update(1, key, value)
    \/ \E key \in Keys : evict(1, key)
    \/ \E key \in Keys : get(1, key)
    \/ \E ok \in BOOLEAN : WriteThroughSettles(1, ok)
    \/ \E ok \in BOOLEAN, freshValue \in Values : ReadThroughSettles(1, ok, freshValue)
    \/ Release(1)
    \/ Return

SpecRoute == Init /\ [][NextRoute]_vars

(* Entries of different ttl under a running clock, with the passive check
   of get and containsKey and the active sweep, one call at a time. *)

NextTtl ==
    \/ \E args \in TtlArgs : register(args)
    \/ clear
    \/ \E key \in Keys : containsKey(key)
    \/ size
    \/ \E key \in Keys, value \in Values : put(1, key, value)
    \/ \E key \in Keys, value \in Values : update(1, key, value)
    \/ \E key \in Keys : evict(1, key)
    \/ \E key \in Keys : get(1, key)
    \/ \E ok \in BOOLEAN, freshValue \in ReadResults :
          ReadThroughSettles(1, ok, freshValue)
    \/ \E ok \in BOOLEAN, freshValue \in ReadResults :
          ReadAroundSettles(1, ok, freshValue)
    \/ Tick
    \/ Sweep
    \/ Release(1)
    \/ Return

SpecTtl == Init /\ [][NextTtl]_vars

(* Two write-through calls that overlap: the call in slot 1 is issued
   while no other is in flight, the call in slot 2 while the one in slot 1
   is, so of two calls in flight the one in slot 2 was issued last. *)

NextRace ==
    \/ \E args \in RaceArgs : register(args)
    \/ \E key \in Keys, value \in Values : ops[2].pc = "idle" /\ put(1, key, value)
    \/ \E key \in Keys, value \in Values : ops[2].pc = "idle" /\ update(1, key, value)
    \/ \E key \in Keys, value \in Values : put(2, key, value)
    \/ \E key \in Keys, value \in Values : update(2, key, value)
    \/ \E o \in {1, 2}, ok \in BOOLEAN : WriteThroughSettles(o, ok)
    \/ \E o \in {1, 2} : Release(o)
    \/ Return

SpecRace == Init /\ [][NextRace]_vars

(* Route resolution over registered patterns whose regular expression
   may not compile, one call at a time. *)

NextMatch ==
    \/ \E args \in MatchArgs : registerWithin(args, MaxOverlap)
    \/ \E key \in Keys, value \in Values : put(1, key, value)
    \/ \E key \in Keys, value \in Values : update(1, key, value)
    \/ \E key \in Keys : evict(1, key)
    \/ \E key \in Keys : get(1, key)
    \/ Release(1)
    \/ Return

SpecMatch == Init /\ [][NextMatch]_vars

(* Validation of the pattern of the first registration of a cache, over
   every pattern of the bounded alphabet. *)

NextValidate ==
    \/ /\ NoneDone
       /\ patternRegister = <<>>
       /\ \E args \in ValidateArgs : register(args)
    \/ Return

SpecValidate == Init /\ [][NextValidate]_vars

(* Two write-back calls on the key of a write-back route, and clear: the
   call in slot 1 is issued while no other is in flight, the call in slot
   2 while the one in slot 1 is, so of two calls in flight the one in slot
   2 was issued last. *)

NextBack ==
    \/ \E args \in BackArgs : register(args)
    \/ clear
    \/ \E value \in Values : ops[2].pc = "idle" /\ put(1, <<"u", "1">>, value)
    \/ \E value \in Values : put(2, <<"u", "1">>, value)
    \/ ops[2].pc = "idle" /\ evict(1, <<"u", "1">>)
    \/ evict(2, <<"u", "1">>)
    \/ \E o \in {1, 2} : WriteBackTry(o)
    \/ \E o \in {1, 2}, ok \in BOOLEAN : WriteBackSettles(o, ok)
    \/ \E o \in {1, 2} : WriteBackTimer(o)
    \/ \E o \in {1, 2} : Release(o)
    \/ Return

SpecBack == Init /\ [][NextBack]_vars

\* The callers return to the event loop again and again, and the event
\* loop then runs every queued promise reaction and fires every timer that
\* is due, however many calls are made in between; a caller resumes when
\* its call has settled.
SpecBackFair ==
    /\ SpecBack
    /\ \A o \in {1, 2} : SF_vars(WriteBackTimer(o))
    /\ \A o \in {1, 2} : SF_vars(WriteBackTry(o))
    /\ \A o \in {1, 2} : SF_vars(Release(o))
    /\ SF_vars(Return)

(* The dispatcher with routes that differ in their read side, under a
   running clock and the active sweep: entries expire. *)

NextRead ==
    \/ \E args \in ReadArgs : register(args)
    \/ \E o \in OpIds, key \in Keys, value \in Values : put(o, key, value)
    \/ \E o \in OpIds, key \in Keys : evict(o, key)
    \/ \E o \in OpIds, key \in Keys : get(o, key)
    \/ \E o \in OpIds, ok \in BOOLEAN, freshValue \in ReadResults :
          ReadThroughSettles(o, ok, freshValue)
    \/ \E o \in OpIds, ok \in BOOLEAN, freshValue \in ReadResults :
          ReadAroundSettles(o, ok, freshValue)
    \/ Tick
    \/ Sweep
    \/ \E o \in OpIds : Release(o)
    \/ Return

SpecRead == Init /\ [][NextRead]_vars

-----------------------------------------------------------------------------
(* Properties *)

Writes == {"put", "update", "evict"}

IsWriteThrough(op) ==
    /\ op.kind \in Writes
    /\ op.route > 0
    /\ patternRegister[op.route].writeStrategy = WriteStrategies.writeThrough

IsWriteBack(op) ==
    /\ op.kind \in Writes
    /\ op.route > 0
    /\ patternRegister[op.route].writeStrategy = WriteStrategies.writeBack

\* The step is a step of call o.
Moved(o) == ops'[o] # ops[o]

\* What a write of the call leaves in the store: for put and update the
\* value under the key with the route's ttl, for evict no entry; every
\* other key as it was.
Written(op, before, after) ==
    /\ \A k \in Keys \ {op.key} : after[k] = before[k]
    /\ IF op.kind = "evict" THEN after[op.key] = NoEntry
       ELSE /\ after[op.key] # NoEntry
            /\ after[op.key].value = op.value
            /\ after[op.key].ttl = patternRegister[op.route].ttl

\* C1: when the callback of a write-through put, update or evict fails, the
\* call rejects, and neither the step that called the callback nor the
\* step in which it failed changed the store.
C1_WriteThroughFailureAborts ==
    [][\A o \in OpIds :
         /\ (Moved(o) /\ ops'[o].pc = "wt_cb") => store' = store
         /\ (Moved(o) /\ IsWriteThrough(ops'[o]) /\ ops'[o].outcome = "failed")
              => /\ ops'[o].status = "rejected"
                 /\ store' = store]_vars

\* A write-through call has rejected after its callback failed while the
\* key holds another value than the one the call carried.
C1_Witness ==
    \E o \in OpIds :
        /\ IsWriteThrough(ops[o])
        /\ ops[o].pc = "done"
        /\ ops[o].outcome = "failed"
        /\ ops[o].status = "rejected"
        /\ store[ops[o].key] # NoEntry
        /\ store[ops[o].key].value # ops[o].value

\* C2: a write-through put calls the write callback exactly once, leaves
\* the store alone while the callback is in flight, and writes the value
\* (with the route's ttl) in the step in which the callback succeeds.
C2_WriteThroughPutStoresAfterCallback ==
    [][\A o \in OpIds :
         (Moved(o) /\ IsWriteThrough(ops'[o]) /\ ops'[o].kind = "put")
           => /\ ops'[o].calls = 1
              /\ ops'[o].callback = "writeCallback"
              /\ IF ops'[o].outcome = "ok"
                 THEN ops[o].pc = "wt_cb" /\ Written(ops'[o], store, store')
                 ELSE store' = store]_vars

\* The write callback of a write-through put is in flight while the key
\* still holds the previous, different value.
C2_Witness ==
    \E o \in OpIds :
        /\ IsWriteThrough(ops[o])
        /\ ops[o].kind = "put"
        /\ ops[o].pc = "wt_cb"
        /\ ops[o].calls = 1
        /\ store[ops[o].key] # NoEntry
        /\ store[ops[o].key].value # ops[o].value

\* C3: a route registered without an explicit ttl, read strategy or write
\* strategy has the global default for it, and a put through a route
\* without an explicit ttl stores the entry with the global default ttl.
C3_UnsetFieldsTakeGlobalDefault ==
    \A o \in OpIds :
        (ops[o].kind = "put" /\ ops[o].status = "resolved" /\ ops[o].route > 0)
          => LET args == registerArgs[ops[o].route]
                 keyConfig == patternRegister[ops[o].route]
             IN  /\ args.ttl = <<>> => store[ops[o].key].ttl = globalConfig.ttl
                 /\ args.readStrategy = <<>>
                      => keyConfig.readStrategy = globalConfig.readStrategy
                 /\ args.writeStrategy = <<>>
                      => keyConfig.writeStrategy = globalConfig.writeStrategy

InChain(op) == op.pc \in {"wb_try", "wb_cb", "wb_wait"}

C5_WriteBackNeverRejects ==
    \A o \in OpIds : IsWriteBack(ops[o]) => ops[o].status # "rejected"

\* A write-back call has resolved although its callback failed on every
\* attempt, retries included.
C5_Witness ==
    \E o \in OpIds :
        /\ IsWriteBack(ops[o])
        /\ ops[o].status = "resolved"
        /\ ops[o].outcome = "failed"
        /\ ops[o].calls = 3

\* C6: a write-back call whose callback keeps failing invokes it once per
\* attempt, writeRetryCount + 1 times in all and never more, each time with
\* the context of the route and the key.
C6_ExactlyRetryCountPlusOneCalls ==
    \A o \in OpIds :
        IsWriteBack(ops[o])
          => LET keyConfig == patternRegister[ops[o].route]
             IN  /\ ops[o].calls <= keyConfig.writeRetryCount + 1
                 /\ ops[o].pc = "wb_wait" => ops[o].calls = ops[o].attempt + 1
                 /\ (ops[o].pc = "done" /\ ops[o].outcome = "failed")
                      => ops[o].calls = keyConfig.writeRetryCount + 1
                 /\ ops[o].calls > 0
                      => ops[o].cbCtx =
                           [match |-> TRUE, threw |-> FALSE, key |-> ops[o].key,
                            params |-> {<<<<"i">>, SubSeq(ops[o].key, 2, Len(ops[o].key))>>}]

\* With writeRetryCount = 4 the fifth invocation has failed and the chain
\* has given up.
C6_Witness ==
    \E o \in OpIds :
        /\ IsWriteBack(ops[o])
        /\ patternRegister[ops[o].route].writeRetryCount = 4
        /\ ops[o].pc = "done"
        /\ ops[o].outcome = "failed"
        /\ ops[o].calls = 5

BackoffSchedule == <<1000, 2000, 4000, 5000, 5000>>

\* C7: with backoff, the delay before retry i (i = 0 after the first
\* failed try) is min(cap, interval * 2^i); with interval 1000 and cap 5000
\* the delays are 1000, 2000, 4000, then 5000.
C7_BackoffDelay ==
    \A o \in OpIds :
        (IsWriteBack(ops[o]) /\ ops[o].pc = "wb_wait"
           /\ patternRegister[ops[o].route].writeRetryBackoff)
          => LET keyConfig == patternRegister[ops[o].route]
                 i == ops[o].calls - 1
             IN  /\ ops[o].timer = Min(keyConfig.writeRetryIntervalCap,
                                       keyConfig.writeRetryInterval * (2 ^ i))
                 /\ (keyConfig.writeRetryInterval = 1000
                       /\ keyConfig.writeRetryIntervalCap = 5000)
                      => ops[o].timer = BackoffSchedule[i + 1]

\* The fourth retry (i = 3) of a route with interval 1000 and cap 5000
\* waits the capped 5000.
C7_Witness ==
    \E o \in OpIds :
        /\ IsWriteBack(ops[o])
        /\ ops[o].pc = "wb_wait"
        /\ ops[o].calls = 4
        /\ patternRegister[ops[o].route].writeRetryBackoff
        /\ patternRegister[ops[o].route].writeRetryInterval = 1000
        /\ patternRegister[ops[o].route].writeRetryIntervalCap = 5000
        /\ ops[o].timer = 5000

\* C8, as stated: without backoff every retry waits writeRetryInterval.
C8_ConstantDelayIsInterval ==
    \A o \in OpIds :
        (IsWriteBack(ops[o]) /\ ops[o].pc = "wb_wait"
           /\ ~patternRegister[ops[o].route].writeRetryBackoff)
          => ops[o].timer = patternRegister[ops[o].route].writeRetryInterval

\* C8, amended: without backoff every retry waits the same delay, the
\* smaller of writeRetryInterval and writeRetryIntervalCap.
C8_ConstantDelayIsCappedInterval ==
    \A o \in OpIds :
        (IsWriteBack(ops[o]) /\ ops[o].pc = "wb_wait"
           /\ ~patternRegister[ops[o].route].writeRetryBackoff)
          => LET keyConfig == patternRegister[ops[o].route]
             IN  ops[o].timer =
                   IF keyConfig.writeRetryInterval <= keyConfig.writeRetryIntervalCap
                   THEN keyConfig.writeRetryInterval
                   ELSE keyConfig.writeRetryIntervalCap

\* Without backoff, a later retry waits the uncapped interval.
C8_Witness ==
    \E o \in OpIds :
        /\ IsWriteBack(ops[o])
        /\ ops[o].pc = "wb_wait"
        /\ ops[o].calls = 3
        /\ ~patternRegister[ops[o].route].writeRetryBackoff
        /\ ops[o].timer = 1000

\* C9: no delay between two attempts exceeds writeRetryIntervalCap.
C9_DelayNeverExceedsCap ==
    \A o \in OpIds :
        (IsWriteBack(ops[o]) /\ ops[o].pc = "wb_wait")
          => ops[o].timer <= patternRegister[ops[o].route].writeRetryIntervalCap

\* A retry without backoff whose interval (6000) is above the cap (5000)
\* waits the cap.
C9_Witness ==
    \E o \in OpIds :
        /\ IsWriteBack(ops[o])
        /\ ops[o].pc = "wb_wait"
        /\ ~patternRegister[ops[o].route].writeRetryBackoff
        /\ patternRegister[ops[o].route].writeRetryInterval = 6000
        /\ ops[o].timer = 5000

\* C10: a write-back put, update or evict mutates the store in its first
\* step, before the callback has been invoked, and no later step of the
\* call (attempt, delay, giving up) changes the store.
C10_WriteBackStoresFirst ==
    [][\A o \in OpIds :
         (Moved(o) /\ IsWriteBack(ops'[o]))
           => IF ops[o].pc = "idle"
              THEN /\ ops'[o].calls = 0
                   /\ ops'[o].pc = "wb_try"
                   /\ Written(ops'[o], store, store')
              ELSE store' = store]_vars

\* containsKey answers true for the key of a write-back put whose callback
\* has failed and whose retry is still to come.
C10_Witness ==
    \E o \in OpIds :
        /\ IsWriteBack(ops[o])
        /\ ops[o].kind = "put"
        /\ ops[o].pc = "wb_wait"
        /\ ret.call = "containsKey"
        /\ ret.key = ops[o].key
        /\ ret.value = TRUE
        /\ store[ops[o].key].value = ops[o].value

-----------------------------------------------------------------------------
(* Properties of get *)

IsReadThrough(op) ==
    /\ op.kind = "get"
    /\ op.route > 0
    /\ patternRegister[op.route].readStrategy = ReadStrategies.readThrough

IsReadAround(op) ==
    /\ op.kind = "get"
    /\ op.route > 0
    /\ patternRegister[op.route].readStrategy = ReadStrategies.readAround

\* A get without a read strategy: the route is cache-only or no route matches.
IsCacheOnlyRead(op) ==
    /\ op.kind = "get"
    /\ \/ op.route = 0
       \/ /\ op.route > 0
          /\ patternRegister[op.route].readStrategy = ReadStrategies.cacheOnly

\* The store holds a live value for the key at time t: an entry is present,
\* it has not expired (ttl 0 never expires) and it carries a value.
LiveValue(s, key, t) ==
    /\ s[key] # NoEntry
    /\ s[key].ttl = 0 \/ s[key].expires >= t
    /\ s[key].value # Undefined

\* The entry a callback result v leaves under the key of the call at time t
FreshEntry(op, v, t) ==
    [value |-> v, ttl |-> patternRegister[op.route].ttl, created |-> t,
     expires |-> t + patternRegister[op.route].ttl]

\* A get of the key issued in store s at time t would be answered from the
\* cache with value v, without a call of the read callback.
AnsweredFromCache(op, s, t, v) ==
    LET again == readThroughLookup([IdleOp EXCEPT !.kind = "get", !.key = op.key,
                                                  !.route = op.route,
                                                  !.status = "pending"],
                                   StoreGet(s, op.key, t).value, NoContext)
    IN  /\ again.pc = "done"
        /\ again.status = "resolved"
        /\ again.result = v
        /\ again.calls = 0

\* C11, as stated: a read-through get that finds no live value invokes the
\* read callback once; when the callback succeeds its result is stored
\* under the key with the route's ttl and returned, and a get that follows
\* immediately is answered with the same value from the cache.
C11_ReadThroughMissCachesResult ==
    [][\A o \in OpIds :
         (Moved(o) /\ IsReadThrough(ops'[o]))
           => /\ (ops[o].pc = "idle" /\ ~LiveValue(store, ops'[o].key, now))
                   => /\ ops'[o].pc = "rt_cb"
                      /\ ops'[o].calls = 1
                      /\ ops'[o].callback = "readCallback"
              /\ (ops[o].pc = "rt_cb" /\ ops'[o].outcome = "ok")
                   => /\ ops'[o].calls = 1
                      /\ ops'[o].status = "resolved"
                      /\ ops'[o].result = ops'[o].fresh
                      /\ store'[ops'[o].key] = FreshEntry(ops'[o], ops'[o].fresh, now)
                      /\ AnsweredFromCache(ops'[o], store', now', ops'[o].fresh)]_vars

\* C11, amended: as C11, the get that follows being answered from the cache
\* when the callback's result is a value other than undefined; a result of
\* undefined is stored and returned as well.
C11_ReadThroughMissCachesDefinedResult ==
    [][\A o \in OpIds :
         (Moved(o) /\ IsReadThrough(ops'[o]))
           => /\ (ops[o].pc = "idle" /\ ~LiveValue(store, ops'[o].key, now))
                   => /\ ops'[o].pc = "rt_cb"
                      /\ ops'[o].calls = 1
                      /\ ops'[o].callback = "readCallback"
              /\ (ops[o].pc = "rt_cb" /\ ops'[o].outcome = "ok")
                   => /\ ops'[o].calls = 1
                      /\ ops'[o].status = "resolved"
                      /\ ops'[o].result = ops'[o].fresh
                      /\ store'[ops'[o].key] = FreshEntry(ops'[o], ops'[o].fresh, now)
                      /\ ops'[o].fresh # Undefined
                           => AnsweredFromCache(ops'[o], store', now', ops'[o].fresh)]_vars

\* A read-through get has resolved with the value its callback fetched
\* after the cached entry had expired, and the key holds that value with
\* the route's ttl of 300.
C11_Witness ==
    \E o \in OpIds :
        /\ IsReadThrough(ops[o])
        /\ ops[o].pc = "done"
        /\ ops[o].calls = 1
        /\ ops[o].outcome = "ok"
        /\ ops[o].result \in Values
        /\ now > 0
        /\ store[ops[o].key] = FreshEntry(ops[o], ops[o].result, now)
        /\ store[ops[o].key].ttl = 300

\* C12: a read-through get that finds a live value returns it without
\* invoking the read callback and leaves the store, the entry's value,
\* ttl and expiry included, as it was.
C12_ReadThroughHitLeavesEntry ==
    [][\A o \in OpIds :
         (Moved(o) /\ IsReadThrough(ops'[o]) /\ ops[o].pc = "idle"
            /\ LiveValue(store, ops'[o].key, now))
           => /\ ops'[o].pc = "done"
              /\ ops'[o].status = "resolved"
              /\ ops'[o].result = store[ops'[o].key].value
              /\ ops'[o].calls = 0
              /\ store' = store]_vars

\* A read-through get was answered from an entry that expires (ttl 300)
\* and is still live.
C12_Witness ==
    \E o \in OpIds :
        /\ IsReadThrough(ops[o])
        /\ ops[o].pc = "done"
        /\ ops[o].calls = 0
        /\ ops[o].status = "resolved"
        /\ store[ops[o].key] # NoEntry
        /\ store[ops[o].key].ttl = 300
        /\ ops[o].result = store[ops[o].key].value

\* C13: a read-around get invokes the read callback whatever the cache
\* holds; when the callback succeeds the get returns the callback's value
\* and the key holds that value with the route's ttl.
C13_ReadAroundAsksOriginFirst ==
    [][\A o \in OpIds :
         (Moved(o) /\ IsReadAround(ops'[o]))
           => /\ ops[o].pc = "idle"
                   => /\ ops'[o].pc = "ra_cb"
                      /\ ops'[o].calls = 1
                      /\ ops'[o].callback = "readCallback"
                      /\ store' = store
              /\ (ops[o].pc = "ra_cb" /\ ops'[o].outcome = "ok")
                   => /\ ops'[o].calls = 1
                      /\ ops'[o].status = "resolved"
                      /\ ops'[o].result = ops'[o].fresh
                      /\ store'[ops'[o].key] = FreshEntry(ops'[o], ops'[o].fresh, now)
                      /\ \A k \in Keys \ {ops'[o].key} : store'[k] = store[k]]_vars

\* A read-around get has resolved with its callback's value while another
\* read-around get of the same key, issued before that value was cached,
\* still waits for its callback.
C13_Witness ==
    \E o \in OpIds, o2 \in OpIds :
        /\ o # o2
        /\ IsReadAround(ops[o])
        /\ ops[o].pc = "done"
        /\ ops[o].outcome = "ok"
        /\ ops[o].result \in Values
        /\ store[ops[o].key].value = ops[o].result
        /\ IsReadAround(ops[o2])
        /\ ops[o2].key = ops[o].key
        /\ ops[o2].pc = "ra_cb"

\* C14: a read-around get rejects exactly when its read callback has
\* failed and the store holds no live value for the key; when the callback
\* fails and a live value is cached, the get resolves with the cached
\* value and the store is left as it was.
C14_ReadAroundFailsOnlyWithoutCache ==
    [][\A o \in OpIds :
         (Moved(o) /\ IsReadAround(ops'[o]) /\ ops[o].pc = "ra_cb")
           => /\ ops'[o].pc = "done"
              /\ ops'[o].status = "rejected"
                   <=> (ops'[o].outcome = "failed"
                          /\ ~LiveValue(store, ops'[o].key, now))
              /\ (ops'[o].outcome = "failed" /\ LiveValue(store, ops'[o].key, now))
                   => /\ ops'[o].status = "resolved"
                      /\ ops'[o].result = store[ops'[o].key].value
                      /\ store' = store]_vars

\* The read callback of a read-around get has failed and the get has
\* resolved with the value the key still holds.
C14_Witness ==
    \E o \in OpIds :
        /\ IsReadAround(ops[o])
        /\ ops[o].pc = "done"
        /\ ops[o].outcome = "failed"
        /\ ops[o].status = "resolved"
        /\ store[ops[o].key] # NoEntry
        /\ ops[o].result = store[ops[o].key].value

\* C15: a get on a cache-only read route, or on a key no route matches,
\* invokes no callback: it returns the live cached value, and rejects with
\* "Key not found" when there is none.
C15_CacheOnlyGet ==
    [][\A o \in OpIds :
         (Moved(o) /\ IsCacheOnlyRead(ops'[o]))
           => /\ ops[o].pc = "idle"
              /\ ops'[o].pc = "done"
              /\ ops'[o].calls = 0
              /\ IF LiveValue(store, ops'[o].key, now)
                 THEN /\ ops'[o].status = "resolved"
                      /\ ops'[o].result = store[ops'[o].key].value
                      /\ store' = store
                 ELSE /\ ops'[o].status = "rejected"
                      /\ ops'[o].result = "Key not found"]_vars

\* After a clock tick a get on a cache-only route has rejected with "Key
\* not found" although the route is registered and another key is cached.
C15_Witness ==
    \E o \in OpIds :
        /\ ops[o].kind = "get"
        /\ ops[o].route > 0
        /\ patternRegister[ops[o].route].readStrategy = ReadStrategies.cacheOnly
        /\ ops[o].pc = "done"
        /\ ops[o].status = "rejected"
        /\ ops[o].result = "Key not found"
        /\ ops[o].calls = 0
        /\ now > 0
        /\ \E k \in Keys : store[k] # NoEntry

-----------------------------------------------------------------------------
(* Properties of update, evict, clear and register *)

\* The call has no write strategy: its route is cache-only or no route
\* matches its key.
IsCacheOnlyWrite(op) ==
    \/ op.route = 0
    \/ /\ op.route > 0
       /\ patternRegister[op.route].writeStrategy = WriteStrategies.cacheOnly

\* C16: update on a key no route matches rejects with "No configuration
\* found for key!", invokes no callback and leaves the store unchanged; put
\* on such a key resolves, invokes no callback and stores the value as a
\* cache-only write does (ttl 0).
C16_UpdateNeedsRoute ==
    [][\A o \in OpIds :
         (Moved(o) /\ ops[o].pc = "idle" /\ ops'[o].route = 0)
           => /\ ops'[o].kind = "update"
                   => /\ ops'[o].pc = "done"
                      /\ ops'[o].status = "rejected"
                      /\ ops'[o].result = "No configuration found for key!"
                      /\ ops'[o].calls = 0
                      /\ store' = store
              /\ ops'[o].kind = "put"
                   => /\ ops'[o].pc = "done"
                      /\ ops'[o].status = "resolved"
                      /\ ops'[o].calls = 0
                      /\ store'[ops'[o].key] =
                           [value |-> ops'[o].value, ttl |-> 0, created |-> now,
                            expires |-> now]
                      /\ \A k \in Keys \ {ops'[o].key} : store'[k] = store[k]]_vars

\* An update of a key that matches none of the registered routes has
\* rejected; the key holds the other value, which a put had stored.
C16_Witness ==
    \E o \in OpIds :
        /\ ops[o].kind = "update"
        /\ ops[o].route = 0
        /\ ops[o].pc = "done"
        /\ ops[o].status = "rejected"
        /\ ops[o].result = "No configuration found for key!"
        /\ Len(patternRegister) > 0
        /\ store[ops[o].key] # NoEntry
        /\ store[ops[o].key].value # ops[o].value

\* C17: update on a matched route dispatches as put does: write-through
\* calls the callback and stores when it succeeds, write-back stores and
\* then runs the retry chain, cache-only stores and calls nothing.  The
\* callback invoked is the route's update callback when one is configured
\* and its write callback otherwise, never the other one.
C17_UpdateDispatchesLikePut ==
    [][\A o \in OpIds :
         (Moved(o) /\ ops'[o].kind = "update" /\ ops'[o].route > 0)
           => LET op == ops'[o]
                  keyConfig == patternRegister[op.route]
              IN  /\ op.calls > 0
                       => op.callback = IF keyConfig.updateCallback # Undefined
                                        THEN "updateCallback" ELSE "writeCallback"
                  /\ IF keyConfig.writeStrategy = WriteStrategies.writeThrough
                     THEN /\ op.calls = 1
                          /\ IF ops[o].pc = "idle"
                             THEN op.pc = "wt_cb" /\ store' = store
                             ELSE /\ op.pc = "done"
                                  /\ IF op.outcome = "ok"
                                     THEN /\ op.status = "resolved"
                                          /\ Written(op, store, store')
                                     ELSE /\ op.status = "rejected"
                                          /\ store' = store
                     ELSE IF keyConfig.writeStrategy = WriteStrategies.writeBack
                     THEN /\ op.calls <= keyConfig.writeRetryCount + 1
                          /\ op.status # "rejected"
                          /\ IF ops[o].pc = "idle"
                             THEN /\ op.pc = "wb_try"
                                  /\ op.calls = 0
                                  /\ Written(op, store, store')
                             ELSE store' = store
                     ELSE /\ ops[o].pc = "idle"
                          /\ op.pc = "done"
                          /\ op.status = "resolved"
                          /\ op.calls = 0
                          /\ Written(op, store, store')]_vars

\* The update callback of a write-back route has failed once and its retry
\* is awaited, the new value already stored.
C17_Witness ==
    \E o \in OpIds :
        /\ ops[o].kind = "update"
        /\ IsWriteBack(ops[o])
        /\ patternRegister[ops[o].route].updateCallback # Undefined
        /\ ops[o].pc = "wb_wait"
        /\ ops[o].callback = "updateCallback"
        /\ store[ops[o].key].value = ops[o].value

C19_ClearEmptiesStore ==
    [][(ret' # ret /\ ret'.call = "clear")
         => /\ \A k \in Keys : store'[k] = NoEntry
            /\ StoreSize(store') = 0
            /\ \A k \in Keys : StoreGet(store', k, now').value = Undefined
            /\ ops' = ops
            /\ patternRegister' = patternRegister]_vars

\* clear has removed the entry of a write-back put whose retry is still
\* awaited.
C19_Witness ==
    \E o \in OpIds :
        /\ IsWriteBack(ops[o])
        /\ ops[o].kind = "put"
        /\ ops[o].pc = "wb_wait"
        /\ ret.call = "clear"
        /\ store[ops[o].key] = NoEntry

\* C20: register throws "Invalid key pattern!" exactly for a pattern that
\* fails validation, "{}" among them, and then adds nothing: the register,
\* the route of every key, the store and the calls in flight are as before.
C20_InvalidPatternNotRegistered ==
    [][(ret' # ret /\ ret'.call = "register")
         => /\ ret'.threw = "Invalid key pattern!" <=> ~keyPatternIsValid(ret'.pattern)
            /\ ret'.pattern = <<"{", "}">> => ret'.threw = "Invalid key pattern!"
            /\ ret'.threw = "Invalid key pattern!"
                 => /\ patternRegister' = patternRegister
                    /\ \A k \in Keys : findRoute(patternRegister', k) =
                                         findRoute(patternRegister, k)
                    /\ store' = store
                    /\ ops' = ops]_vars

\* register("{}") has thrown while a route is registered and a key cached.
C20_Witness ==
    /\ ret.call = "register"
    /\ ret.pattern = <<"{", "}">>
    /\ ret.threw = "Invalid key pattern!"
    /\ Len(patternRegister) = 1
    /\ \E k \in Keys : findRoute(patternRegister, k) > 0 /\ store[k] # NoEntry

-----------------------------------------------------------------------------
(* Properties of route resolution and of expiry *)

\* The earliest-registered route whose pattern matches the key, 0 for none
EarliestMatch(reg, key) ==
    LET ms == {i \in 1..Len(reg) : checkForMatch(reg[i].pattern, key).match}
    IN  IF ms = {} THEN 0 ELSE CHOOSE i \in ms : \A j \in ms : i <= j

\* C21: every put, get, update and evict resolves its key to the
\* earliest-registered route whose pattern matches, and to no route when
\* none matches; the call follows that route's strategies, stores with
\* its ttl and calls its callbacks with its context, and registrations
\* made later change none of this.
C21_FirstRegisteredRouteWins ==
    [][\A o \in OpIds :
         (Moved(o) /\ ops'[o].kind # "none")
           => \A first \in {EarliestMatch(patternRegister', ops'[o].key)} :
                LET op == ops'[o]
                    keyConfig == patternRegister'[first]
                IN  /\ op.route = first
                    /\ first = 0 => op.calls = 0
                    /\ first > 0
                         => /\ op.calls > 0
                                 => op.cbCtx = checkForMatch(keyConfig.pattern, op.key)
                            /\ (store'[op.key] # store[op.key]
                                  /\ store'[op.key] # NoEntry)
                                 => store'[op.key].ttl = keyConfig.ttl
                            /\ (ops[o].pc = "idle" /\ op.kind \in Writes)
                                 => (op.pc = "wt_cb" <=>
                                       keyConfig.writeStrategy =
                                         WriteStrategies.writeThrough)
                            /\ (ops[o].pc = "idle" /\ op.kind = "get")
                                 => (op.pc = "rt_cb" <=>
                                       (keyConfig.readStrategy =
                                          ReadStrategies.readThrough
                                        /\ ~LiveValue(store, op.key, now)))]_vars

\* Two routes match the key "u1"; a put has called the write callback of
\* the first, "{k}", although the second, "u{i}", is cache-only.
C21_Witness ==
    \E o \in OpIds :
        /\ Len(patternRegister) = 2
        /\ patternRegister[1].pattern = <<"{", "k", "}">>
        /\ patternRegister[1].writeStrategy = WriteStrategies.writeThrough
        /\ patternRegister[2].pattern = <<"u", "{", "i", "}">>
        /\ patternRegister[2].writeStrategy = WriteStrategies.cacheOnly
        /\ ops[o].kind = "put"
        /\ ops[o].key = <<"u", "1">>
        /\ ops[o].route = 1
        /\ ops[o].pc = "wt_cb"
        /\ ops[o].cbCtx.params = {<<<<"k">>, <<"u", "1">>>>}

\* The step is a clear().
ClearStep == ret' # ret /\ ret'.call = "clear"

\* The step is a step of a call on key k that writes the store: a put, an
\* update, an evict, or a get that caches what its read callback fetched.
StoreWriteStep(k) ==
    \E o \in OpIds :
        /\ Moved(o)
        /\ ops'[o].key = k
        /\ \/ ops'[o].kind \in Writes
           \/ ops'[o].kind = "get" /\ ops'[o].outcome = "ok"

\* The entry is present and its non-zero ttl has elapsed at time t.
Elapsed(s, k, t) == s[k] # NoEntry /\ s[k].ttl # 0 /\ s[k].expires < t

\* C22: an entry stored through a route registered with an explicit ttl
\* carries that ttl, not the global one, and expires that many seconds
\* after it was stored, whether a put, an update or the fill of a
\* read-through or read-around get stored it: with global ttl 300 and
\* route ttl 600 the entry is still served after 400 seconds.
C22_RouteTtlOverridesGlobal ==
    [][\A o \in OpIds :
         (Moved(o) /\ ops'[o].route > 0
            /\ registerArgs[ops'[o].route].ttl # <<>>)
           => \A ttl \in {registerArgs[ops'[o].route].ttl[1]} :
                LET op == ops'[o]
                IN  /\ (store'[op.key] # store[op.key] /\ store'[op.key] # NoEntry)
                         => /\ op.kind \in {"put", "update", "get"}
                            /\ store'[op.key].ttl = ttl
                            /\ store'[op.key].created = now
                            /\ store'[op.key].expires = now + ttl
                    /\ (op.kind = "get" /\ ops[o].pc = "idle"
                          /\ ~IsReadAround(op)
                          /\ store[op.key] # NoEntry
                          /\ store[op.key].value # Undefined
                          /\ store[op.key].ttl = ttl
                          /\ now <= store[op.key].created + ttl)
                         => /\ op.status = "resolved"
                            /\ op.result = store[op.key].value
                            /\ store' = store]_vars

\* Under a global ttl of 300, a get is answered 400 seconds after the
\* entry was stored through a route of ttl 600.
C22_Witness ==
    \E o \in OpIds :
        /\ globalConfig.ttl = 300
        /\ ops[o].kind = "get"
        /\ ops[o].route > 0
        /\ registerArgs[ops[o].route].ttl = <<600>>
        /\ ops[o].pc = "done"
        /\ ops[o].status = "resolved"
        /\ ops[o].calls = 0
        /\ store[ops[o].key] # NoEntry
        /\ store[ops[o].key].ttl = 600
        /\ now >= store[ops[o].key].created + 400
        /\ ops[o].result = store[ops[o].key].value

\* C23: without a read strategy, get returns the value the key holds for
\* as long as the entry's ttl has not elapsed, and rejects with "Key not
\* found" once a non-zero ttl has elapsed, whether or not the entry has
\* been swept; and an entry changes only by a write of its key, by clear,
\* or by being removed once its ttl has elapsed.
C23_CachedUntilTtlElapses ==
    [][/\ \A o \in OpIds :
            (Moved(o) /\ IsCacheOnlyRead(ops'[o]))
              => \A k \in {ops'[o].key} :
                   /\ (store[k] # NoEntry /\ store[k].value # Undefined
                         /\ ~Elapsed(store, k, now))
                        => /\ ops'[o].status = "resolved"
                           /\ ops'[o].result = store[k].value
                           /\ store' = store
                   /\ Elapsed(store, k, now)
                        => /\ ops'[o].status = "rejected"
                           /\ ops'[o].result = "Key not found"
       /\ \A k \in Keys :
            (store[k] # NoEntry /\ store'[k] # store[k])
              => \/ StoreWriteStep(k)
                 \/ ClearStep
                 \/ Elapsed(store, k, now) /\ store'[k] = NoEntry]_vars

\* A get without read strategy has rejected with "Key not found" after the
\* clock has advanced while the other key still holds an entry whose ttl
\* has elapsed: the sweep has not run since.
C23_Witness ==
    \E o \in OpIds :
        /\ IsCacheOnlyRead(ops[o])
        /\ ops[o].pc = "done"
        /\ ops[o].status = "rejected"
        /\ ops[o].result = "Key not found"
        /\ now > 0
        /\ \E k \in Keys \ {ops[o].key} : Elapsed(store, k, now)

\* C24: an entry of ttl 0 leaves the store or changes only through a write
\* of its key (a store put or evict) or through clear: no passing of
\* time, no get or containsKey and no tick of the sweep removes it.
C24_TtlZeroNeverExpires ==
    [][\A k \in Keys :
         (store[k] # NoEntry /\ store[k].ttl = 0 /\ store'[k] # store[k])
           => StoreWriteStep(k) \/ ClearStep]_vars

\* A get is answered from an entry of ttl 0 whose expiry timestamp lies in
\* the past.
C24_Witness ==
    \E o \in OpIds :
        /\ ops[o].kind = "get"
        /\ ops[o].pc = "done"
        /\ ops[o].status = "resolved"
        /\ ops[o].calls = 0
        /\ store[ops[o].key] # NoEntry
        /\ store[ops[o].key].ttl = 0
        /\ store[ops[o].key].expires < now
        /\ ops[o].result = store[ops[o].key].value

\* The number of keys whose entry is present and has not expired at time t
LiveCount(s, t) == Cardinality({k \in Keys : s[k] # NoEntry /\ ~Elapsed(s, k, t)})

\* The number of keys whose entry is present, expired or not
PresentCount(s) == Cardinality({k \in Keys : s[k] # NoEntry})

\* C25, as stated: size() returns the number of keys whose entry is present
\* and has not expired.
C25_SizeCountsLiveEntries ==
    ret.call = "size" => ret.value = LiveCount(store, now)

\* C25, amended: size() returns the number of keys that have an entry in
\* the store, entries whose ttl has elapsed but that have not been removed
\* yet included: at least the number of live entries, and exactly that
\* number when no elapsed entry is left; it changes nothing, and a write
\* over an existing key leaves the count as it was.
C25_SizeCountsStoredEntries ==
    [][/\ (ret' # ret /\ ret'.call = "size")
            => /\ ret'.value = PresentCount(store)
               /\ ret'.value >= LiveCount(store, now)
               /\ (\A k \in Keys : ~Elapsed(store, k, now))
                    => ret'.value = LiveCount(store, now)
               /\ store' = store
               /\ ops' = ops
       /\ \A k \in Keys :
            (store[k] # NoEntry /\ store'[k] # NoEntry /\ store'[k] # store[k])
              => StoreSize(store') = StoreSize(store)]_vars

\* size() has answered 2 while one of the two entries has outlived its
\* ttl.
C25_Witness ==
    /\ ret.call = "size"
    /\ ret.value = 2
    /\ \E k \in Keys : Elapsed(store, k, now)
    /\ \E k \in Keys : store[k] # NoEntry /\ ~Elapsed(store, k, now)

\* C26, as stated: containsKey(k) returns true exactly when the store
\* holds an entry for k that has not expired.
C26_ContainsKeyIffUnexpiredEntry ==
    [][(ret' # ret /\ ret'.call = "containsKey")
         => (ret'.value <=> (store[ret'.key] # NoEntry
                               /\ ~Elapsed(store, ret'.key, now)))]_vars

\* C26, amended: containsKey(k) returns true exactly when the store holds
\* an entry for k that has not expired and whose value is not undefined;
\* an entry whose ttl has elapsed is removed by the check, nothing else
\* changes, and no callback is invoked.
C26_ContainsKeyIffLiveValue ==
    [][(ret' # ret /\ ret'.call = "containsKey")
         => \A k \in {ret'.key} :
              /\ ret'.value <=> (store[k] # NoEntry /\ ~Elapsed(store, k, now)
                                   /\ store[k].value # Undefined)
              /\ Elapsed(store, k, now) => (store'[k] = NoEntry /\ ~ret'.value)
              /\ ~Elapsed(store, k, now) => store' = store
              /\ \A k2 \in Keys \ {k} : store'[k2] = store[k2]
              /\ ops' = ops]_vars

\* containsKey has answered false for a key after the clock has advanced,
\* and has removed its entry, while the other key still holds an entry
\* whose ttl has elapsed.
C26_Witness ==
    /\ ret.call = "containsKey"
    /\ ret.value = FALSE
    /\ now > 0
    /\ store[ret.key] = NoEntry
    /\ \E k \in Keys \ {ret.key} : Elapsed(store, k, now)

-----------------------------------------------------------------------------
(* The active sweep over a store of more keys than one tick samples *)

\* More than twice the keys one tick samples: no two ticks can check
\* them all.
SweepKeys == 1..(2 * MaxSample + 1)

\* Every key holds an entry whose ttl elapsed before the first tick, and
\* nothing is put afterwards.
InitSweep ==
    /\ store = [k \in SweepKeys |->
                  [value |-> "v1", ttl |-> TickSeconds - 1, created |-> 0,
                   expires |-> TickSeconds - 1]]
    /\ now = TickSeconds
    /\ globalConfig \in GlobalConfigs
    /\ patternRegister = <<>>
    /\ registerArgs = <<>>
    /\ ops = [o \in OpIds |-> IdleOp]
    /\ ret = NoRet

NextSweep == SweepWithin(MaxSample)

SpecSweep == InitSweep /\ [][NextSweep]_vars

\* setInterval fires the sweep again and again.
SpecSweepFair == SpecSweep /\ WF_vars(SweepWithin(MaxSample))

\* The entries of s whose non-zero ttl has elapsed at time t
ExpiredKeys(s, t) == {k \in StoreKeys(s) : s[k].ttl # 0 /\ s[k].expires < t}

\* C27: from a store of more entries than one tick samples, all with an
\* elapsed non-zero ttl, and with no further puts, the ticks of the sweep
\* eventually leave the store empty.
C27_SweepEventuallyEmptiesStore == <>(StoreKeys(store) = {})

\* The sweep has emptied a store that held more entries than one tick
\* samples.
C27_Witness ==
    /\ DOMAIN store = SweepKeys
    /\ StoreKeys(store) = {}

\* C28: one tick of the sweep over at most as many keys as it samples
\* (20 in the source) checks every key, so no expired entry is left after
\* it; over more keys it checks a set of at most that many distinct keys,
\* so it removes at most that many entries; and it removes expired
\* entries only.
C28_SweepTickChecksAtMostCap ==
    [][\A before \in {StoreKeys(store)} : \A after \in {StoreKeys(store')} :
         /\ after \subseteq before
         /\ (before \ after) \subseteq ExpiredKeys(store, now)
         /\ Cardinality(before) <= MaxSample
              => ExpiredKeys(store', now) = {}
         /\ Cardinality(before) > MaxSample
              => Cardinality(before \ after) <= MaxSample]_vars

\* A tick over more keys than it samples has removed as many entries as it
\* can, and one expired entry is left.
C28_Witness ==
    /\ DOMAIN store = SweepKeys
    /\ Cardinality(StoreKeys(store)) = Cardinality(SweepKeys) - MaxSample
    /\ ExpiredKeys(store, now) = StoreKeys(store)

-----------------------------------------------------------------------------
(* Properties of overlapping writes *)

\* C29: nothing serialises write-through puts and updates of one key: a
\* call issued while another on the same key is in flight calls its
\* callback at once, and whenever the callback of a call completes the
\* key holds that call's value afterwards, whether the call was issued
\* before or after the others in flight and whatever they have written;
\* so the call whose callback completes last decides the cached value.
C29_LastCompletedWriteWins ==
    [][\A o \in OpIds :
         (Moved(o) /\ IsWriteThrough(ops'[o]) /\ ops'[o].kind \in {"put", "update"})
           => /\ ops[o].pc = "idle"
                   => /\ ops'[o].pc = "wt_cb"
                      /\ ops'[o].calls = 1
                      /\ store' = store
              /\ ops'[o].outcome = "ok"
                   => /\ store'[ops'[o].key] # NoEntry
                      /\ store'[ops'[o].key].value = ops'[o].value
              /\ \A j \in OpIds \ {o} : ops'[j] = ops[j]]_vars

\* Of two write-through calls on one key with different values, the one
\* issued last has completed first and the key holds its value, while the
\* callback of the one issued first is still in flight.
C29_Witness ==
    /\ IsWriteThrough(ops[1])
    /\ IsWriteThrough(ops[2])
    /\ ops[1].kind \in {"put", "update"}
    /\ ops[2].kind \in {"put", "update"}
    /\ ops[1].key = ops[2].key
    /\ ops[1].value # ops[2].value
    /\ ops[1].pc = "wt_cb"
    /\ ops[2].pc = "done"
    /\ ops[2].outcome = "ok"
    /\ store[ops[2].key] # NoEntry
    /\ store[ops[2].key].value = ops[2].value

-----------------------------------------------------------------------------
(* Properties of matching *)

\* C30: matching never raises: checkForMatch of a registered pattern and a
\* key answers matched or not matched, and no put, get, update or evict
\* fails in route resolution because of a registered pattern.
C30_MatchingNeverRaises ==
    /\ \A i \in 1..Len(patternRegister) : \A key \in Keys :
          ~checkForMatch(patternRegister[i].pattern, key).threw
    /\ \A o \in OpIds : ops[o].route # -1 /\ ops[o].result # "SyntaxError"

-----------------------------------------------------------------------------
(* Properties of validation *)

\* The placeholders of a pattern, read from left to right from position
\* from: each runs from a "{" to the next "}" after it, and the next one
\* is looked for behind that "}".  A placeholder is the pair of the
\* positions of its braces.
RECURSIVE PlaceholderSpans(_, _)
PlaceholderSpans(p, from) ==
    LET opens == {i \in from..Len(p) :
                    p[i] = "{" /\ \E j \in (i + 1)..Len(p) : p[j] = "}"}
    IN  IF opens = {} THEN {}
        ELSE LET i == CHOOSE a \in opens : \A b \in opens : a <= b
                 closes == {j \in (i + 1)..Len(p) : p[j] = "}"}
                 j == CHOOSE a \in closes : \A b \in closes : a <= b
             IN  {<<i, j>>} \cup PlaceholderSpans(p, j + 1)

\* The name of a placeholder: the text between its braces
SpanName(p, span) == SubSeq(p, span[1] + 1, span[2] - 1)

HasDuplicateName(p) ==
    \E a, b \in PlaceholderSpans(p, 1) : a # b /\ SpanName(p, a) = SpanName(p, b)

HasEmptyName(p) == \E a \in PlaceholderSpans(p, 1) : SpanName(p, a) = <<>>

HasBraceInName(p) ==
    \E a \in PlaceholderSpans(p, 1) :
        \E i \in (a[1] + 1)..(a[2] - 1) : p[i] \in {"{", "}"}

\* C31: register rejects a pattern as invalid exactly when the pattern has
\* two placeholders of the same name, a placeholder of empty name, or a
\* placeholder whose name contains a brace; a pattern without placeholder
\* is accepted, and a rejected pattern is not registered.
C31_ValidationRejectsExactly ==
    [][(ret' # ret /\ ret'.call = "register")
         => \A p \in {ret'.pattern} :
              /\ ret'.threw \in {"nothing", "Invalid key pattern!"}
              /\ (ret'.threw = "Invalid key pattern!")
                   <=> (HasDuplicateName(p) \/ HasEmptyName(p) \/ HasBraceInName(p))
              /\ PlaceholderSpans(p, 1) = {} => ret'.threw = "nothing"
              /\ (ret'.threw = "nothing")
                   <=> (patternRegister' # patternRegister)]_vars

\* register has rejected a pattern whose only fault is a brace in a
\* placeholder name.
C31_Witness ==
    /\ ret.call = "register"
    /\ ret.threw = "Invalid key pattern!"
    /\ HasBraceInName(ret.pattern)
    /\ ~HasDuplicateName(ret.pattern)
    /\ ~HasEmptyName(ret.pattern)
    /\ patternRegister = <<>>

-----------------------------------------------------------------------------
(* Properties of the match of a key against a pattern *)

\* The key from position k on is the pattern from position i on with each
\* placeholder replaced by some string, and every other character of the
\* pattern standing for itself.
RECURSIVE IsInstanceFrom(_, _, _, _)
IsInstanceFrom(p, i, key, k) ==
    IF i > Len(p) THEN k = Len(key) + 1
    ELSE LET here == {sp \in PlaceholderSpans(p, 1) : sp[1] = i}
         IN  IF here # {}
             THEN \E sp \in here : \E len \in 0..(Len(key) + 1 - k) :
                      IsInstanceFrom(p, sp[2] + 1, key, k + len)
             ELSE /\ k <= Len(key)
                  /\ key[k] = p[i]
                  /\ IsInstanceFrom(p, i + 1, key, k + 1)

IsInstance(p, key) == IsInstanceFrom(p, 1, key, 1)

\* The pattern from position i on with each placeholder replaced by the
\* value params gives its name
RECURSIVE SubstituteFrom(_, _, _)
SubstituteFrom(p, i, params) ==
    IF i > Len(p) THEN <<>>
    ELSE LET here == {sp \in PlaceholderSpans(p, 1) : sp[1] = i}
         IN  IF here # {}
             THEN LET sp == CHOOSE a \in here : TRUE
                      pair == CHOOSE a \in params : a[1] = SpanName(p, sp)
                  IN  pair[2] \o SubstituteFrom(p, sp[2] + 1, params)
             ELSE <<p[i]>> \o SubstituteFrom(p, i + 1, params)

\* C32: a key matches a registered pattern exactly when the whole key is
\* the pattern with each placeholder replaced by some string and the
\* pattern's other characters taken literally; the extracted values put
\* back into the pattern give the key; and a call is routed only through
\* a pattern its key is such an instance of.
C32_MatchIffKeyInstantiatesPattern ==
    /\ \A i \in 1..Len(patternRegister) : \A key \in Keys :
          \A m \in {checkForMatch(patternRegister[i].pattern, key)} :
              ~m.threw
                => /\ m.match <=> IsInstance(patternRegister[i].pattern, key)
                   /\ m.match
                        => SubstituteFrom(patternRegister[i].pattern, 1, m.params) = key
    /\ \A o \in OpIds :
          ops[o].route > 0
            => IsInstance(patternRegister[ops[o].route].pattern, ops[o].key)

-----------------------------------------------------------------------------
(* Properties of the order of the attempts of a write-back chain *)

\* C33: the callback of a write-back call is invoked one attempt at a
\* time: the first attempt starts the chain, every later attempt starts
\* from the wait that followed a failed attempt, when the timer of that
\* wait fires; while an attempt is in flight nothing of the call moves but
\* the settling of that attempt; and the attempt that succeeds ends the
\* chain: the call resolves in that step without a further wait, and the
\* callback is not invoked again.
C33_RetryChainStopsAtSuccess ==
    [][\A o \in OpIds :
         (Moved(o) /\ IsWriteBack(ops[o]))
           => /\ (ops[o].pc # "done" /\ ops'[o].calls # ops[o].calls)
                   => /\ ops'[o].calls = ops[o].calls + 1
                      /\ ops'[o].pc = "wb_cb"
                      /\ \/ ops[o].pc = "wb_try" /\ ops[o].calls = 0
                         \/ /\ ops[o].pc = "wb_wait"
                            /\ ops[o].outcome = "failed"
                            /\ ops[o].timer
                                 = rejectDelay(KeyConfigOfOp(ops[o]), ops[o].attempt)
                            /\ ops'[o].attempt = ops[o].attempt + 1
              /\ ops[o].pc = "wb_cb"
                   => /\ ops'[o].outcome \in {"ok", "failed"}
                      /\ ops'[o].calls = ops[o].calls
              /\ (ops[o].pc = "wb_cb" /\ ops'[o].outcome = "ok")
                   => /\ ops'[o].pc = "done"
                      /\ ops'[o].status = "resolved"
                      /\ ops'[o].timer = 0
              /\ ops[o].pc = "done" => ops'[o] = IdleOp]_vars

\* A write-back call has resolved on the success of its second attempt
\* with attempts left.
C33_Witness ==
    \E o \in OpIds :
        /\ IsWriteBack(ops[o])
        /\ ops[o].pc = "done"
        /\ ops[o].outcome = "ok"
        /\ ops[o].status = "resolved"
        /\ ops[o].calls = 2
        /\ ops[o].calls < tryCount(KeyConfigOfOp(ops[o]))

-----------------------------------------------------------------------------
(* Properties of removal by expiry *)

\* The step is a step of an evict of key k.
EvictStep(k) ==
    \E o \in OpIds : Moved(o) /\ ops'[o].kind = "evict" /\ ops'[o].key = k

\* C34: an entry leaves the store by expiry only when its ttl is not 0
\* and its expiry timestamp is strictly before the current time: every
\* step that removes an entry and is neither an evict of its key nor a
\* clear (a get, a containsKey, a tick of the sweep) removes an entry
\* whose ttl has elapsed, and an entry whose expiry timestamp is the
\* current time stays.
C34_OnlyExpiredEntriesAreRemoved ==
    [][\A k \in Keys :
         (store[k] # NoEntry /\ store'[k] = NoEntry /\ ~EvictStep(k) /\ ~ClearStep)
           => /\ store[k].ttl # 0
              /\ store[k].expires < now]_vars

\* After the clock has advanced a get has been answered from an entry of
\* non-zero ttl whose expiry timestamp is the current time.
C34_Witness ==
    \E o \in OpIds :
        /\ ops[o].kind = "get"
        /\ ops[o].pc = "done"
        /\ ops[o].status = "resolved"
        /\ now > 0
        /\ store[ops[o].key] # NoEntry
        /\ store[ops[o].key].ttl # 0
        /\ store[ops[o].key].expires = now
        /\ ops[o].result = store[ops[o].key].value

-----------------------------------------------------------------------------
(* Properties of writes without a route *)

\* C35: a put of a key that no registered pattern matches invokes no
\* callback and stores the value with ttl 0, created and expiring at the
\* time of the put, whatever the global default ttl is.
C35_UnroutedPutStoresWithoutTtl ==
    [][\A o \in OpIds :
         (Moved(o) /\ ops'[o].kind = "put" /\ ops'[o].route = 0)
           => /\ ops'[o].pc = "done"
              /\ ops'[o].status = "resolved"
              /\ ops'[o].calls = 0
              /\ store'[ops'[o].key]
                   = [value |-> ops'[o].value, ttl |-> 0, created |-> now,
                      expires |-> now]
              /\ \A k \in Keys \ {ops'[o].key} : store'[k] = store[k]]_vars

\* Under a global ttl of 300 and with nothing registered, a put has been
\* stored with ttl 0 and a get is answered from it 400 seconds later.
C35_Witness ==
    \E o \in OpIds :
        /\ globalConfig.ttl = 300
        /\ patternRegister = <<>>
        /\ ops[o].kind = "get"
        /\ ops[o].pc = "done"
        /\ ops[o].status = "resolved"
        /\ store[ops[o].key] # NoEntry
        /\ store[ops[o].key].ttl = 0
        /\ now >= store[ops[o].key].created + 400
        /\ ops[o].result = store[ops[o].key].value

-----------------------------------------------------------------------------
(* Properties of a write-back chain among later calls *)

\* The retry chain of call o is running: its first attempt is queued, an
\* attempt is in flight, or it waits for the next attempt.
ChainRunning(op) == IsWriteBack(op) /\ op.pc \in {"wb_try", "wb_cb", "wb_wait"}

\* C36: a write-back put, update or evict mutates the store in the step
\* that starts it, and no later step of the call (an attempt, its
\* settling, the wait, giving up) changes the store: a retry of an older
\* put leaves the value a newer put of the key has stored.
C36_RetryChainLeavesStore ==
    [][\A o \in OpIds :
         /\ (Moved(o) /\ ChainRunning(ops[o])) => store' = store
         /\ (Moved(o) /\ ops[o].pc = "idle" /\ IsWriteBack(ops'[o]))
              => Written(ops'[o], store, store')]_vars

\* The older of two write-back puts has ended after a retry while the key
\* holds the value of the newer put.
C36_Witness ==
    /\ IsWriteBack(ops[1])
    /\ ops[1].kind = "put"
    /\ ops[1].pc = "done"
    /\ ops[1].calls >= 2
    /\ store[ops[1].key] # NoEntry
    /\ store[ops[1].key].value # ops[1].value

-----------------------------------------------------------------------------
(* Properties of a get among later writes *)

\* C37: when the read callback of a read-through or read-around get
\* succeeds, the get stores the fetched value under the key with the
\* route's ttl and returns it, whatever the key holds by then: a value
\* that a put stored while the callback was in flight is overwritten.
C37_FillOverwritesLaterPut ==
    [][\A o \in OpIds :
         (Moved(o) /\ ops[o].pc \in {"rt_cb", "ra_cb"} /\ ops'[o].outcome = "ok")
           => /\ ops'[o].pc = "done"
              /\ ops'[o].status = "resolved"
              /\ ops'[o].result = ops'[o].fresh
              /\ store'[ops'[o].key] = FreshEntry(ops'[o], ops'[o].fresh, now)]_vars

\* The read callback of a read-through get, invoked on a miss, is in
\* flight while the key holds a live value: a write of the key, such as
\* a put, has completed since.
C37_Witness ==
    \E o \in OpIds :
        /\ IsReadThrough(ops[o])
        /\ ops[o].pc = "rt_cb"
        /\ ops[o].calls = 1
        /\ LiveValue(store, ops[o].key, now)

\* C38: no later call cancels a write-back chain: a clear, and every step
\* of another call (a newer put or an evict of the key among them),
\* leaves a running chain as it is, and a chain that waits for its next
\* attempt does invoke its callback again.
C38_PendingRetriesSurvive ==
    /\ [][\A o \in OpIds :
            (ChainRunning(ops[o]) /\ (ClearStep \/ \E j \in OpIds \ {o} : Moved(j)))
              => ops'[o] = ops[o]]_vars
    /\ \A o \in OpIds :
          (ChainRunning(ops[o]) /\ ops[o].pc = "wb_wait")
            ~> (ChainRunning(ops[o]) /\ ops[o].pc = "wb_cb" /\ ops[o].calls >= 2)

\* The callback of a write-back put is in flight for a retry although the
\* entry the put stored has been removed by a clear or an evict since.
C38_Witness ==
    \E o \in OpIds :
        /\ IsWriteBack(ops[o])
        /\ ops[o].kind = "put"
        /\ ops[o].pc = "wb_cb"
        /\ ops[o].calls >= 2
        /\ store[ops[o].key] = NoEntry

-----------------------------------------------------------------------------
(* Properties of a failed read *)

\* A get of the key of call op issued in store s at time t would invoke
\* the read callback.
WouldAskOrigin(op, s, t) ==
    readThroughLookup([IdleOp EXCEPT !.kind = "get", !.key = op.key,
                                     !.route = op.route, !.status = "pending"],
                      StoreGet(s, op.key, t).value, NoContext).pc = "rt_cb"

\* C39: when the read callback of a read-through get fails, the get
\* rejects with the failure and the store stays as it was: nothing is
\* stored for the key, and unless the key has been written while the
\* callback was in flight a following get of the key invokes the read
\* callback again.
C39_ReadThroughFailurePropagates ==
    [][\A o \in OpIds :
         (Moved(o) /\ IsReadThrough(ops'[o]) /\ ops[o].pc = "rt_cb"
            /\ ops'[o].outcome = "failed")
           => /\ ops'[o].pc = "done"
              /\ ops'[o].status = "rejected"
              /\ ops'[o].result = "callback failure"
              /\ ops'[o].calls = 1
              /\ store' = store
              /\ ~LiveValue(store, ops'[o].key, now)
                   => WouldAskOrigin(ops'[o], store', now')]_vars

\* A read-through get has rejected with the failure of its read callback
\* and the key holds no entry.
C39_Witness ==
    \E o \in OpIds :
        /\ IsReadThrough(ops[o])
        /\ ops[o].pc = "done"
        /\ ops[o].calls = 1
        /\ ops[o].outcome = "failed"
        /\ ops[o].status = "rejected"
        /\ store[ops[o].key] = NoEntry
        /\ WouldAskOrigin(ops[o], store, now)

====
